---- MODULE Spec2Model ----
(***************************************************************************)
(* Model of lfz's build orchestrator (src/build/orchestrator.rs): the      *)
(* sequential and the parallel run over a list of targets, the counting    *)
(* semaphore that gates the task threads, the four per-target build        *)
(* functions and the artifact resolver they call.                          *)
(*                                                                         *)
(* Conventions: Option<T> is a sequence of length 0 (None) or 1 (Some);    *)
(* a String is a sequence of characters (one-character strings) or of      *)
(* fixed message fragments; a Vec is a sequence.                           *)
(***************************************************************************)
EXTENDS Integers, Sequences, FiniteSets, Bags, TLC

\* ------------------------------------------------------------------ bounds

\* Longest target list handed to a run.
MaxTargets == 3
\* Longest target list of the runs that draw on every outcome.
MaxDetailTargets == 2
\* Largest max_jobs handed to build_parallel.
MaxJobs == 2

\* The largest number of files in a hashed directory.
MaxFiles == 2

\* ------------------------------------------------------------- option type

None == << >>
Some(x) == << x >>
IsSome(o) == Len(o) = 1
IsNone(o) == Len(o) = 0

\* Result<T, E>
Ok(v) == [ok |-> TRUE, value |-> v]
Err(e) == [ok |-> FALSE, value |-> e]

\* ------------------------------------------------------------------ inputs

\* Artifact names the targets are drawn from (BuildTarget::artifact_name).
NamePool == << "a", "b", "c", "d", "e" >>

\* The target lists a run is given: the prefixes of the pool, and one list
\* that names the same artifact twice.
TargetLists(max) ==
    { SubSeq(NamePool, 1, n) : n \in 0..max }
    \cup (IF max >= 2 THEN { << "a", "a" >> } ELSE {})

\* What a toolchain child writes: the lines of its stdout and of its stderr,
\* each line a sequence of characters.
StreamChoices ==
    { [out |-> << >>,                     err |-> << >>],
      [out |-> << <<"x">>, <<"y">> >>,    err |-> << >>],
      [out |-> << >>,                     err |-> << <<"e">> >>],
      [out |-> << <<"x">>, <<"y">> >>,    err |-> << <<"e">> >>] }

\* The filesystem as collect_artifact finds it: which of the two candidate
\* paths exist, and whether create_dir_all and copy succeed.
FsChoices ==
    { [cands |-> {},     io |-> "ok"],
      [cands |-> {1},    io |-> "ok"],
      [cands |-> {2},    io |-> "ok"],
      [cands |-> {1, 2}, io |-> "copy_err"] }

NoStreams == [out |-> << >>, err |-> << >>]
NoFs == [cands |-> {}, io |-> "ok"]

\* What the environment does to one target's build: whether the child can be
\* spawned, whether the reader threads can be spawned (thread::spawn panics
\* otherwise), whether waiting for the child works, the exit code, the output
\* and the filesystem the resolver sees.  Fields that the outcome makes
\* irrelevant are fixed, so that each outcome is listed once.
Outcomes ==
    { [spawn |-> FALSE, threads |-> TRUE, wait |-> TRUE, code |-> 0,
       streams |-> NoStreams, fs |-> NoFs] }
    \cup
    { [spawn |-> TRUE, threads |-> FALSE, wait |-> TRUE, code |-> 0,
       streams |-> NoStreams, fs |-> NoFs] }
    \cup
    { [spawn |-> TRUE, threads |-> TRUE, wait |-> FALSE, code |-> 0,
       streams |-> NoStreams, fs |-> NoFs] }
    \cup
    { [spawn |-> TRUE, threads |-> TRUE, wait |-> TRUE, code |-> 1,
       streams |-> s, fs |-> NoFs] : s \in StreamChoices }
    \cup
    { [spawn |-> TRUE, threads |-> TRUE, wait |-> TRUE, code |-> 0,
       streams |-> NoStreams, fs |-> f] : f \in FsChoices }

\* The outcomes that matter to the scheduling of a run: a build that fails,
\* one that succeeds and one that panics.
CoreOutcomes ==
    { o \in Outcomes :
        /\ o.spawn /\ o.wait
        /\ o.code = 1 =>
             o.streams = [out |-> << <<"x">>, <<"y">> >>, err |-> << <<"e">> >>]
        /\ o.code = 0 /\ o.threads => o.fs = [cands |-> {1}, io |-> "ok"] }

\* A build that fails and one that succeeds.
FairOutcomes == { o \in CoreOutcomes : o.threads }

\* No child has been run for the target yet.
NoOutcome == [spawn |-> FALSE, threads |-> FALSE, wait |-> FALSE, code |-> -1,
              streams |-> NoStreams, fs |-> NoFs]

\* ------------------------------------------------------------------ strings

\* slice::join: the pieces with sep between them.
RECURSIVE Join(_, _)
Join(pieces, sep) ==
    IF pieces = << >> THEN << >>
    ELSE IF Len(pieces) = 1 THEN pieces[1]
    ELSE pieces[1] \o sep \o Join(Tail(pieces), sep)

\* The stdout reader thread: every line is kept, the lines are joined by "\n".
StdoutReader(lines) == Join(lines, << "\n" >>)

\* The stderr reader thread: every line is appended, each followed by "\n".
RECURSIVE StderrReader(_)
StderrReader(lines) ==
    IF lines = << >> THEN << >>
    ELSE lines[1] \o << "\n" >> \o StderrReader(Tail(lines))

\* A variant of combined_output that puts no newline between the streams.
CombinedOutputNoSeparator(stdout_output, stderr_output) ==
    stdout_output \o stderr_output

\* combined_output of a failed build: stdout, then stderr when there is any,
\* with a "\n" between them when both are non-empty.
CombinedOutput(stdout_output, stderr_output) ==
    IF stderr_output # << >>
    THEN (IF stdout_output # << >> THEN stdout_output \o << "\n" >>
                                   ELSE stdout_output) \o stderr_output
    ELSE stdout_output

\* A variant of error_output without the is_empty test.
ErrorOutputAlways(combined_output) == Some(combined_output)

\* error_output of a failed build: None when nothing was captured.
ErrorOutput(combined_output) ==
    IF combined_output = << >> THEN None ELSE Some(combined_output)

\* format!("{:?}", status.code())
DebugCode(code) ==
    CASE code = 0 -> "Some(0)"
      [] code = 1 -> "Some(1)"
      [] OTHER    -> "None"

\* The Display of the io::Error of a failed spawn or wait.
IoError == "io error"
\* The Display of the error of paths::ccache_dir().
CacheDirError == "Could not determine cache directory for your platform"
\* start.elapsed()
Elapsed == "elapsed"

\* ------------------------------------------------------------ BuildProgress

\* enum BuildState
BuildStates == { "Pending", "Starting", "Running", "Success", "Failed" }

\* The prefix BuildProgress shows for a state.
Prefix(state) ==
    CASE state = "Pending"  -> "[  ]"
      [] state = "Starting" -> "[..]"
      [] state = "Running"  -> "[>>]"
      [] state = "Success"  -> "[OK]"
      [] state = "Failed"   -> "[XX]"

\* BuildProgress::new: one bar per target, "[  ] <target> waiting", and one
\* entry (false, "") per target in results.  A text is the sequence of the
\* fragments that format! puts together; the empty text has none.
BuildProgressNew(names) ==
    [targets |-> names,
     bars    |-> [i \in 1..Len(names) |->
                    [prefix |-> Prefix("Pending"),
                     message |-> << names[i], " waiting" >>,
                     finished |-> FALSE, cleared |-> FALSE]],
     results |-> [i \in 1..Len(names) |-> [success |-> FALSE, msg |-> << >>]],
     stdout  |-> << >>,
     printed |-> FALSE]

\* BuildProgress::update: prefix and message of the bar are set, whatever
\* the bar shows; an index without a bar is ignored.
Update(b, index, state, message) ==
    IF index \notin DOMAIN b.bars THEN b
    ELSE [b EXCEPT !.bars[index].prefix = Prefix(state),
                   !.bars[index].message =
                       IF message = "" THEN << b.targets[index] >>
                       ELSE << b.targets[index], " ", message >>]

\* format!("({})", format_duration(d)) of the duration, "" without one.
TimeStr(duration) ==
    IF IsSome(duration) THEN << "(", duration[1], ")" >> ELSE << >>

\* The message finish stores and shows.
FinishMsg(target, success, artifact, duration) ==
    IF success
    THEN IF IsSome(artifact)
         THEN << target, " ", artifact[1], " " >> \o TimeStr(duration)
         ELSE << target, " " >> \o TimeStr(duration)
    ELSE << target, " failed " >> \o TimeStr(duration)

\* BuildProgress::finish: results[index] is overwritten with (success, msg),
\* the bar gets the prefix of the outcome and finish_with_message(msg).
Finish(b, index, success, artifact, duration) ==
    IF index \notin DOMAIN b.bars THEN b
    ELSE LET msg == FinishMsg(b.targets[index], success, artifact, duration)
         IN  [b EXCEPT !.results[index] = [success |-> success, msg |-> msg],
                       !.bars[index].prefix =
                           IF success THEN Prefix("Success") ELSE Prefix("Failed"),
                       !.bars[index].message = msg,
                       !.bars[index].finished = TRUE]

\* The line print_results writes for an entry of results.
SummaryLine(r) ==
    [marker |-> IF r.success THEN "[OK]" ELSE "[XX]", msg |-> r.msg]

\* A variant of the summary that lists the successful targets first.
SummaryLinesSuccessesFirst(rs) ==
    LET written == SelectSeq(rs, LAMBDA r : r.msg # << >>)
        ok      == SelectSeq(written, LAMBDA r : r.success)
        failed  == SelectSeq(written, LAMBDA r : ~r.success)
    IN  [k \in 1..Len(written) |-> SummaryLine((ok \o failed)[k])]

\* The lines of print_results: one per entry of results in index order,
\* entries with an empty message left out.
SummaryLines(rs) ==
    LET written == SelectSeq(rs, LAMBDA r : r.msg # << >>)
    IN  [k \in 1..Len(written) |-> SummaryLine(written[k])]

\* BuildProgress::print_results: finish_and_clear on every bar, then the
\* summary on stdout.
PrintResults(b) ==
    [b EXCEPT !.bars = [i \in DOMAIN b.bars |->
                          [b.bars[i] EXCEPT !.finished = TRUE, !.cleared = TRUE]],
              !.stdout = b.stdout \o SummaryLines(b.results),
              !.printed = TRUE]

\* path.file_name() of an artifact path.
FileName(path) == Tail(path)

\* ------------------------------------------------------- artifact resolver

\* BuildTarget::firmware_path_candidates, the build directory being
\* build/<artifact_name>.
FirmwarePathCandidates(name) ==
    << << "build/", name, "/zephyr/zmk.uf2" >>,
       << "build/", name, "/zmk/zephyr/zmk.uf2" >> >>

\* The destination of the copy: <output_dir>/<artifact_name>.uf2.
DestPath(name) == << "output_dir/", name, ".uf2" >>

\* workspace.join(candidate)
WorkspacePath(c) == << "workspace/" >> \o c

\* A variant of collect_artifact that takes the last candidate that exists.
CollectArtifactLast(name, fs) ==
    LET candidates == FirmwarePathCandidates(name)
        found == { k \in 1..Len(candidates) : k \in fs.cands }
        tried == [k \in 1..Len(candidates) |-> WorkspacePath(candidates[k])]
    IN  IF found = {}
        THEN [ok |-> FALSE, path |-> << >>, source |-> 0,
              err |-> << "Build artifact not found. Searched:\n  " >>
                      \o Join(tried, << "\n  " >>)]
        ELSE LET last == CHOOSE k \in found : \A j \in found : k >= j
             IN  IF fs.io = "mkdir_err"
                 THEN [ok |-> FALSE, path |-> << >>, source |-> last,
                       err |-> << "Failed to create output directory: ",
                                  "output_dir" >>]
                 ELSE IF fs.io = "copy_err"
                 THEN [ok |-> FALSE, path |-> << >>, source |-> last,
                       err |-> << "Failed to copy " >> \o tried[last]
                               \o << " to " >> \o DestPath(name)]
                 ELSE [ok |-> TRUE, path |-> DestPath(name), source |-> last,
                       err |-> << >>]

\* A variant of collect_artifact whose error names the first path only.
CollectArtifactNamesFirst(name, fs) ==
    LET candidates == FirmwarePathCandidates(name)
        found == { k \in 1..Len(candidates) : k \in fs.cands }
        tried == [k \in 1..Len(candidates) |-> WorkspacePath(candidates[k])]
    IN  IF found = {}
        THEN [ok |-> FALSE, path |-> << >>, source |-> 0,
              err |-> << "Build artifact not found. Searched:\n  " >>
                      \o tried[1]]
        ELSE LET first == CHOOSE k \in found : \A j \in found : k <= j
             IN  IF fs.io = "mkdir_err"
                 THEN [ok |-> FALSE, path |-> << >>, source |-> first,
                       err |-> << "Failed to create output directory: ",
                                  "output_dir" >>]
                 ELSE IF fs.io = "copy_err"
                 THEN [ok |-> FALSE, path |-> << >>, source |-> first,
                       err |-> << "Failed to copy " >> \o tried[first]
                               \o << " to " >> \o DestPath(name)]
                 ELSE [ok |-> TRUE, path |-> DestPath(name), source |-> first,
                       err |-> << >>]

\* collect_artifact: the first candidate that exists is copied to the
\* destination; Err names every path tried when none exists, or the
\* directory or the copy that failed.
CollectArtifact(name, fs) ==
    LET candidates == FirmwarePathCandidates(name)
        found == { k \in 1..Len(candidates) : k \in fs.cands }
        tried == [k \in 1..Len(candidates) |-> WorkspacePath(candidates[k])]
    IN  IF found = {}
        THEN [ok |-> FALSE, path |-> << >>, source |-> 0,
              err |-> << "Build artifact not found. Searched:\n  " >>
                      \o Join(tried, << "\n  " >>)]
        ELSE LET first == CHOOSE k \in found : \A j \in found : k <= j
             IN  IF fs.io = "mkdir_err"
                 THEN [ok |-> FALSE, path |-> << >>, source |-> first,
                       err |-> << "Failed to create output directory: ",
                                  "output_dir" >>]
                 ELSE IF fs.io = "copy_err"
                 THEN [ok |-> FALSE, path |-> << >>, source |-> first,
                       err |-> << "Failed to copy " >> \o tried[first]
                               \o << " to " >> \o DestPath(name)]
                 ELSE [ok |-> TRUE, path |-> DestPath(name), source |-> first,
                       err |-> << >>]

\* The bytes of the firmware file at a path of the workspace.
FirmwareAt(path) == << "firmware at " >> \o path

\* The output directory: it does not exist yet.
NoOutputDir == [exists |-> FALSE, files |-> {}]

\* A variant of collect_artifact that makes the output directory before it
\* looks for the candidates.
CollectEffectMakesDirFirst(name, fs, dir) ==
    LET r == CollectArtifact(name, fs)
        candidates == FirmwarePathCandidates(name)
    IN  IF fs.io = "mkdir_err" THEN dir
        ELSE IF ~r.ok THEN [dir EXCEPT !.exists = TRUE]
        ELSE [exists |-> TRUE,
              files |-> { f \in dir.files : f.path # r.path }
                        \cup { [path |-> r.path,
                                bytes |-> FirmwareAt(WorkspacePath(candidates[r.source]))] }]

\* What collect_artifact leaves of the output directory: nothing is touched
\* unless a candidate is found; create_dir_all makes the directory; the copy
\* puts the bytes of the source at the destination, over a file that is
\* there already.
CollectEffect(name, fs, dir) ==
    LET r == CollectArtifact(name, fs)
        candidates == FirmwarePathCandidates(name)
    IN  IF r.source = 0 \/ fs.io = "mkdir_err" THEN dir
        ELSE IF ~r.ok THEN [dir EXCEPT !.exists = TRUE]
        ELSE [exists |-> TRUE,
              files |-> { f \in dir.files : f.path # r.path }
                        \cup { [path |-> r.path,
                                bytes |-> FirmwareAt(WorkspacePath(candidates[r.source]))] }]

\* ------------------------------------------------------------- hash tracker

\* Sha256 followed by hex::encode, taken to be free of collisions: the
\* digest stands for the bytes that were hashed.
Sha256Hex(bytes) == << "sha256:" >> \o bytes

\* File names are strings of bytes, listed here in ascending order; the last
\* two are bytes that no valid UTF-8 text holds.
ByteOrder == << "a", "b", "d", "0xFE", "0xFF" >>
InvalidBytes == { "0xFE", "0xFF" }
ByteRank(b) == CHOOSE k \in 1..Len(ByteOrder) : ByteOrder[k] = b

\* Ord of OsStr: the bytes compared in turn, a proper prefix first.
NameLess(a, b) ==
    \E k \in 1..Len(b) :
        /\ k <= Len(a) + 1
        /\ \A j \in 1..(k - 1) : a[j] = b[j]
        /\ k = Len(a) + 1 \/ ByteRank(a[k]) < ByteRank(b[k])

\* Ord of Path: the components compared in turn, a proper prefix first.
PathLess(p, q) ==
    \E k \in 1..Len(q) :
        /\ k <= Len(p) + 1
        /\ \A j \in 1..(k - 1) : p[j] = q[j]
        /\ k = Len(p) + 1 \/ NameLess(p[k], q[k])

\* files.sort()
SortPaths(files) ==
    CHOOSE s \in [1..Len(files) -> { files[k] : k \in 1..Len(files) }] :
        /\ \A p \in { files[k] : k \in 1..Len(files) } :
              \E k \in 1..Len(files) : s[k] = p
        /\ \A i, j \in 1..Len(files) : i < j => ~PathLess(s[j], s[i])

\* OsStr::to_string_lossy: every byte that is not valid UTF-8 becomes the
\* replacement character.
ToStringLossy(name) ==
    [k \in 1..Len(name) |-> IF name[k] \in InvalidBytes THEN "U+FFFD" ELSE name[k]]

\* relative.to_string_lossy() of a path relative to the hashed directory: its
\* components with the separator between them.
RelativeLossy(p) == Join([k \in 1..Len(p) |-> ToStringLossy(p[k])], << "/" >>)

\* The bytes hash_directory feeds the hasher for the files in `sorted`: per
\* file its relative path, a zero byte, its contents, a zero byte.
RECURSIVE HashInput(_, _)
HashInput(dir, sorted) ==
    IF sorted = << >> THEN << >>
    ELSE RelativeLossy(sorted[1]) \o << "NUL" >> \o dir[sorted[1]] \o << "NUL" >>
         \o HashInput(dir, Tail(sorted))

\* hash_directory of a directory whose files (relative path |-> contents)
\* collect_files lists in the order `listing`; the files in `unreadable`
\* cannot be read.
HashDirectory(dir, listing, unreadable) ==
    LET files == SortPaths(listing)
        bad == { k \in 1..Len(files) : files[k] \in unreadable }
    IN  IF bad # {}
        THEN Err(<< "Failed to read " >>
                 \o RelativeLossy(files[CHOOSE k \in bad : \A j \in bad : k <= j]))
        ELSE Ok(Sha256Hex(HashInput(dir, files)))

\* hash_file of a file with the given contents, None when it cannot be read.
HashFile(contents) ==
    IF IsNone(contents) THEN Err(<< "Failed to read file" >>)
    ELSE Ok(Sha256Hex(contents[1]))

\* The orders in which read_dir may list the files of a directory.
Listings(dir) ==
    { s \in [1..Cardinality(DOMAIN dir) -> DOMAIN dir] :
        \A p \in DOMAIN dir : \E k \in 1..Cardinality(DOMAIN dir) : s[k] = p }

\* BuildHashes::calculate on the project inputs: the two configuration
\* files and the boards and shields directories, each present or not.
\* `listing` gives read_dir's order per directory.
Calculate(inputs, listing) ==
    LET build_yaml_hash == HashFile(inputs.build_yaml)
        west_yml_hash == HashFile(inputs.west_yml)
        boards_hash == IF IsSome(inputs.boards)
                       THEN HashDirectory(inputs.boards[1], listing.boards, {})
                       ELSE Ok(<< >>)
        shields_hash == IF IsSome(inputs.shields)
                        THEN HashDirectory(inputs.shields[1], listing.shields, {})
                        ELSE Ok(<< >>)
    IN  IF ~build_yaml_hash.ok
        THEN Err(<< "Failed to hash build.yaml" >>)
        ELSE IF ~west_yml_hash.ok
        THEN Err(<< "Failed to hash west.yml" >>)
        ELSE IF ~boards_hash.ok THEN boards_hash
        ELSE IF ~shields_hash.ok THEN shields_hash
        ELSE Ok([build_yaml |-> build_yaml_hash.value,
                 west_yml |-> west_yml_hash.value,
                 boards_dir |-> IF IsSome(inputs.boards)
                                THEN Some(boards_hash.value) ELSE None,
                 shields_dir |-> IF IsSome(inputs.shields)
                                 THEN Some(shields_hash.value) ELSE None])

\* The escaping of a JSON string as serde_json writes it: a quote and a
\* backslash get a backslash before them.
RECURSIVE JsonEscape(_)
JsonEscape(s) ==
    IF s = << >> THEN << >>
    ELSE (IF s[1] \in { "\"", "\\" } THEN << "\\", s[1] >> ELSE << s[1] >>)
         \o JsonEscape(Tail(s))

\* The reading of the inside of a JSON string: Some(text), or None when a
\* backslash is not followed by a character it can escape or a quote stands
\* bare.
RECURSIVE JsonUnescape(_)
JsonUnescape(e) ==
    IF e = << >> THEN Some(<< >>)
    ELSE IF e[1] = "\\"
    THEN IF Len(e) >= 2 /\ e[2] \in { "\"", "\\" }
         THEN LET rest == JsonUnescape(SubSeq(e, 3, Len(e)))
              IN  IF IsSome(rest) THEN Some(<< e[2] >> \o rest[1]) ELSE None
         ELSE None
    ELSE IF e[1] = "\""
    THEN None
    ELSE LET rest == JsonUnescape(Tail(e))
         IN  IF IsSome(rest) THEN Some(<< e[1] >> \o rest[1]) ELSE None

\* A JSON text is a sequence of members (a key and a value, the value a
\* string in its escaped form, null or a number) or text that is no JSON
\* object at all.
JsonString(s) == [t |-> "string", s |-> JsonEscape(s)]
JsonNull == [t |-> "null", s |-> << >>]
JsonNumber == [t |-> "number", s |-> << >>]
Member(key, value) == [key |-> key, value |-> value]
NotJson == << [key |-> "", value |-> [t |-> "garbage", s |-> << >>]] >>

\* A variant of the serialisation that writes the strings as they are.
ToStringPrettyUnescaped(h) ==
    LET raw(s) == [t |-> "string", s |-> s]
    IN  << Member("build_yaml", raw(h.build_yaml)),
           Member("west_yml", raw(h.west_yml)) >>
        \o (IF IsSome(h.boards_dir)
            THEN << Member("boards_dir", raw(h.boards_dir[1])) >> ELSE << >>)
        \o (IF IsSome(h.shields_dir)
            THEN << Member("shields_dir", raw(h.shields_dir[1])) >> ELSE << >>)

\* serde_json::to_string_pretty of a BuildHashes: the fields in declaration
\* order, an absent directory hash left out (skip_serializing_if).
ToStringPretty(h) ==
    << Member("build_yaml", JsonString(h.build_yaml)),
       Member("west_yml", JsonString(h.west_yml)) >>
    \o (IF IsSome(h.boards_dir)
        THEN << Member("boards_dir", JsonString(h.boards_dir[1])) >> ELSE << >>)
    \o (IF IsSome(h.shields_dir)
        THEN << Member("shields_dir", JsonString(h.shields_dir[1])) >> ELSE << >>)

\* The members of a text with the given key.
MembersOf(text, key) == SelectSeq(text, LAMBDA m : m.key = key)

\* A String field read from a text: the member must be there once and hold a
\* well-formed string.
RequiredString(text, key) ==
    LET ms == MembersOf(text, key)
    IN  IF Len(ms) # 1 \/ ms[1].value.t # "string" THEN None
        ELSE JsonUnescape(ms[1].value.s)

\* An Option<String> field with serde(default): Some(field), or None when
\* the text does not parse; a member left out or null reads as no value.
OptionalString(text, key) ==
    LET ms == MembersOf(text, key)
    IN  IF Len(ms) = 0 THEN Some(None)
        ELSE IF Len(ms) > 1 THEN None
        ELSE IF ms[1].value.t = "null" THEN Some(None)
        ELSE IF ms[1].value.t # "string" THEN None
        ELSE LET s == JsonUnescape(ms[1].value.s)
             IN  IF IsSome(s) THEN Some(s) ELSE None

\* serde_json::from_str::<BuildHashes>: members with other keys are passed
\* over.
FromStr(text) ==
    LET build_yaml == RequiredString(text, "build_yaml")
        west_yml == RequiredString(text, "west_yml")
        boards_dir == OptionalString(text, "boards_dir")
        shields_dir == OptionalString(text, "shields_dir")
    IN  IF \/ text = NotJson
           \/ IsNone(build_yaml) \/ IsNone(west_yml)
           \/ IsNone(boards_dir) \/ IsNone(shields_dir)
        THEN Err(<< "Failed to parse .lfz_build_hashes.json" >>)
        ELSE Ok([build_yaml |-> build_yaml[1], west_yml |-> west_yml[1],
                 boards_dir |-> boards_dir[1], shields_dir |-> shields_dir[1]])

\* The snapshot file of a workspace: absent, there but not readable as
\* text, or a file with its text.
AbsentFile == [kind |-> "absent", text |-> << >>]
UnreadableFile == [kind |-> "unreadable", text |-> << >>]
TextFile(text) == [kind |-> "file", text |-> text]

\* A variant of BuildHashes::load that takes a file it cannot parse for a
\* missing one.
LoadForgiving(file) ==
    IF file.kind = "absent"
    THEN Ok(None)
    ELSE IF file.kind = "unreadable"
    THEN Err(<< "Failed to read .lfz_build_hashes.json" >>)
    ELSE LET hashes == FromStr(file.text)
         IN  IF ~hashes.ok THEN Ok(None) ELSE Ok(Some(hashes.value))

\* BuildHashes::load
Load(file) ==
    IF file.kind = "absent"
    THEN Ok(None)
    ELSE IF file.kind = "unreadable"
    THEN Err(<< "Failed to read .lfz_build_hashes.json" >>)
    ELSE LET hashes == FromStr(file.text)
         IN  IF ~hashes.ok THEN hashes ELSE Ok(Some(hashes.value))

\* BuildHashes::save: what it returns and the file it leaves.  fs::write
\* either writes the whole text or fails, leaving the file as it was (it
\* could not be opened) or cut short.
Save(h, file) ==
    { [ret |-> Ok(<< >>), file |-> TextFile(ToStringPretty(h))],
      [ret |-> Err(<< "Failed to write .lfz_build_hashes.json" >>), file |-> file],
      [ret |-> Err(<< "Failed to write .lfz_build_hashes.json" >>),
       file |-> TextFile(NotJson)] }

\* BuildHashes::matches
Matches(self, other) == self = other

\* A variant of is_incremental_safe that leaves the directory hashes out of
\* the comparison.
IsIncrementalSafeFilesOnly(file, current) ==
    LET loaded == Load(file)
    IN  IF loaded.ok /\ IsSome(loaded.value)
        THEN /\ current.build_yaml = loaded.value[1].build_yaml
             /\ current.west_yml = loaded.value[1].west_yml
        ELSE FALSE

\* is_incremental_safe
IsIncrementalSafe(file, current) ==
    LET loaded == Load(file)
    IN  IF loaded.ok /\ IsSome(loaded.value)
        THEN Matches(current, loaded.value[1])
        ELSE FALSE

\* west_build_args(config_path, pristine) for a target that has a board and
\* no shield, snippet or cmake arguments; its build directory is
\* build/<artifact_name>.
WestBuildArgs(name, config_path, pristine) ==
    << << "build" >>, << "-s" >>, << "zmk/app" >>, << "-d" >>,
       << "build/", name >>, << "-b" >>, << "board" >> >>
    \o (IF pristine THEN << << "-p" >> >> ELSE << >>)
    \o << << "--" >>, << "-DZMK_CONFIG=", config_path >> >>

\* ------------------------------------------------------------ build targets

\* The most entries the include list of a build.yaml has.
MaxIncludes == 2

\* The most targets of a run that is followed on its progress board.
MaxBoardTargets == 2

\* The calls of get_or_create that are followed.
MaxCalls == 3

\* The lines a pipe of the operating system holds before a write blocks.
PipeCapacity == 2
\* The most lines a toolchain child writes.
MaxLines == 3

\* sanitize_board: board.replace("//", "_"), from left to right.
RECURSIVE SanitizeBoard(_)
SanitizeBoard(board) ==
    IF board = << >> THEN << >>
    ELSE IF Len(board) >= 2 /\ board[1] = "/" /\ board[2] = "/"
    THEN << "_" >> \o SanitizeBoard(SubSeq(board, 3, Len(board)))
    ELSE << board[1] >> \o SanitizeBoard(Tail(board))

\* generate_artifact_name: "<shield>-<board>-zmk" or "<board>-zmk".
GenerateArtifactName(board, shield) ==
    LET sanitized == SanitizeBoard(board)
    IN  IF IsSome(shield)
        THEN shield[1] \o << "-" >> \o sanitized \o << "-", "z", "m", "k" >>
        ELSE sanitized \o << "-", "z", "m", "k" >>

\* BuildTarget::from_args
FromArgs(board, shield) ==
    LET artifact_name == GenerateArtifactName(board, shield)
    IN  Ok([board |-> board, shield |-> shield, cmake_args |-> << >>,
            snippet |-> None, artifact_name |-> artifact_name,
            build_dir |-> << "build/" >> \o artifact_name, group |-> None])

\* str::split_whitespace: the words between the blanks.
RECURSIVE SplitWhitespace(_)
SplitWhitespace(s) ==
    IF s = << >> THEN << >>
    ELSE IF s[1] = " " THEN SplitWhitespace(Tail(s))
    ELSE LET n == CHOOSE k \in 1..Len(s) :
                     /\ \A j \in 1..k : s[j] # " "
                     /\ k = Len(s) \/ s[k + 1] = " "
         IN  << SubSeq(s, 1, n) >> \o SplitWhitespace(SubSeq(s, n + 1, Len(s)))

\* BuildTarget::from_include: the entry's artifact-name if it has one, the
\* generated name otherwise.
FromInclude(include) ==
    LET artifact_name ==
            IF IsSome(include.artifact_name) THEN include.artifact_name[1]
            ELSE GenerateArtifactName(include.board, include.shield)
    IN  Ok([board |-> include.board, shield |-> include.shield,
            cmake_args |-> IF IsSome(include.cmake_args)
                           THEN SplitWhitespace(include.cmake_args[1])
                           ELSE << >>,
            snippet |-> include.snippet,
            artifact_name |-> artifact_name,
            build_dir |-> << "build/" >> \o artifact_name,
            group |-> include.group])

\* The cartesian product of expand_targets: for each board, every shield.
RECURSIVE BoardsTimesShields(_, _)
BoardsTimesShields(boards, shields) ==
    IF boards = << >> THEN << >>
    ELSE [k \in 1..Len(shields) |-> FromArgs(boards[1], Some(shields[k])).value]
         \o BoardsTimesShields(Tail(boards), shields)

\* BuildConfig::expand_targets: the include entries in their order; the
\* boards, or the boards times the shields, only when there is no include
\* entry; an error when no target results.
ExpandTargets(self) ==
    LET included == [k \in 1..Len(self.include) |-> FromInclude(self.include[k]).value]
        expanded ==
            IF self.include = << >> /\ self.board # << >>
            THEN IF self.shield = << >>
                 THEN [k \in 1..Len(self.board) |-> FromArgs(self.board[k], None).value]
                 ELSE BoardsTimesShields(self.board, self.shield)
            ELSE << >>
        all == included \o expanded
    IN  IF all = << >> THEN Err("No build targets found in build.yaml")
        ELSE Ok(all)

\* The targets of a group, in their order:
\* filter(|t| t.group.as_deref() == Some(group.as_str())).
RECURSIVE FilterGroup(_, _)
FilterGroup(all_targets, group) ==
    IF all_targets = << >> THEN << >>
    ELSE (IF all_targets[1].group = Some(group) THEN << all_targets[1] >>
                                                 ELSE << >>)
         \o FilterGroup(Tail(all_targets), group)

\* Step 4 of cli::build::run: the single target of the command line when a
\* board is given; otherwise the targets of build.yaml, all of them or
\* those of a group, an empty group being an error.
DetermineTargets(board, shield, group, build_config) ==
    IF IsSome(board) THEN Ok(<< FromArgs(board[1], shield).value >>)
    ELSE LET all_targets == ExpandTargets(build_config)
         IN  IF ~all_targets.ok THEN all_targets
             ELSE IF group = "all" THEN all_targets
             ELSE LET filtered == FilterGroup(all_targets.value, group)
                  IN  IF filtered = << >>
                      THEN Err("No targets found in group")
                      ELSE Ok(filtered)

\* ------------------------------------------------------------ BuildResult

\* BuildResult::default()
DefaultResult ==
    [target_name |-> "", success |-> FALSE, error |-> None,
     error_output |-> None, artifact_path |-> None, duration |-> None]

\* A variant of the failed result that keeps an artifact path.
FailureKeepsPath(target_name, error, error_output, duration) ==
    [target_name |-> target_name, success |-> FALSE, error |-> Some(error),
     error_output |-> error_output,
     artifact_path |-> Some(<< "output_dir/", target_name, ".uf2" >>),
     duration |-> duration]

\* A failed result as the build functions write it out.
Failure(target_name, error, error_output, duration) ==
    [target_name |-> target_name, success |-> FALSE, error |-> Some(error),
     error_output |-> error_output, artifact_path |-> None,
     duration |-> duration]

\* The successful result.
Success(target_name, artifact_path) ==
    [target_name |-> target_name, success |-> TRUE, error |-> None,
     error_output |-> None, artifact_path |-> Some(artifact_path),
     duration |-> Some(Elapsed)]

\* What a build function does with one target: it returns a result or it
\* panics, having called collect_artifact `collects` times.
Returns(r, n) == [panic |-> FALSE, result |-> r, collects |-> n]
Panics == [panic |-> TRUE, result |-> DefaultResult, collects |-> 0]

\* -------------------------------------------------- per-target build functions
\* Each takes the target's artifact name, whether paths::ccache_dir()
\* succeeds, and what the environment does to this build.

\* A variant of build_target_inner that calls the resolver before it looks
\* at the exit status.
BuildTargetInnerEagerCollect(name, ccache, o) ==
    IF ~ccache
    THEN Returns(Failure(name, << "Failed to get ccache dir: ", CacheDirError >>,
                         None, None), 0)
    ELSE IF ~o.spawn
    THEN Returns(Failure(name, << "Failed to spawn build process: ", IoError >>,
                         None, None), 0)
    ELSE IF ~o.threads
    THEN Panics
    ELSE IF ~o.wait
    THEN Returns(Failure(name, << "Failed to wait for build: ", IoError >>,
                         None, None), 0)
    ELSE LET a == CollectArtifact(name, o.fs)
         IN  IF o.code # 0
             THEN Returns(Failure(name,
                      << "Build failed with exit code: ", DebugCode(o.code) >>,
                      ErrorOutput(CombinedOutput(StdoutReader(o.streams.out),
                                                 StderrReader(o.streams.err))),
                      Some(Elapsed)), 1)
             ELSE IF a.ok
             THEN Returns(Success(name, a.path), 1)
             ELSE Returns(Failure(name,
                      << "Failed to collect artifact: " >> \o a.err,
                      None, Some(Elapsed)), 1)

\* build_target_inner: sequential mode, output captured silently.
BuildTargetInner(name, ccache, o) ==
    IF ~ccache
    THEN Returns(Failure(name, << "Failed to get ccache dir: ", CacheDirError >>,
                         None, None), 0)
    ELSE IF ~o.spawn
    THEN Returns(Failure(name, << "Failed to spawn build process: ", IoError >>,
                         None, None), 0)
    ELSE IF ~o.threads
    THEN Panics
    ELSE IF ~o.wait
    THEN Returns(Failure(name, << "Failed to wait for build: ", IoError >>,
                         None, None), 0)
    ELSE LET stdout_output == StdoutReader(o.streams.out)
             stderr_output == StderrReader(o.streams.err)
         IN  IF o.code # 0
             THEN Returns(Failure(name,
                      << "Build failed with exit code: ", DebugCode(o.code) >>,
                      ErrorOutput(CombinedOutput(stdout_output, stderr_output)),
                      Some(Elapsed)), 0)
             ELSE LET a == CollectArtifact(name, o.fs)
                  IN  IF a.ok
                      THEN Returns(Success(name, a.path), 1)
                      ELSE Returns(Failure(name,
                               << "Failed to collect artifact: " >> \o a.err,
                               None, Some(Elapsed)), 1)

\* A variant of build_target_with_progress that takes the artifact for
\* collected whatever the resolver returns.
BuildTargetWithProgressAssumesArtifact(name, ccache, o) ==
    IF ~ccache
    THEN Returns(Failure(name, << "Failed to get ccache dir: ", CacheDirError >>,
                         None, None), 0)
    ELSE IF ~o.spawn
    THEN Returns(Failure(name, << "Failed to spawn build process: ", IoError >>,
                         None, None), 0)
    ELSE IF ~o.threads
    THEN Panics
    ELSE IF ~o.wait
    THEN Returns(Failure(name, << "Failed to wait for build: ", IoError >>,
                         None, None), 0)
    ELSE IF o.code # 0
    THEN Returns(Failure(name,
             << "Build failed with exit code: ", DebugCode(o.code) >>,
             ErrorOutput(CombinedOutput(StdoutReader(o.streams.out),
                                        StderrReader(o.streams.err))),
             Some(Elapsed)), 0)
    ELSE Returns(Success(name, DestPath(name)), 1)

\* build_target_with_progress: parallel mode with the progress board.
BuildTargetWithProgress(name, ccache, o) ==
    IF ~ccache
    THEN Returns(Failure(name, << "Failed to get ccache dir: ", CacheDirError >>,
                         None, None), 0)
    ELSE IF ~o.spawn
    THEN Returns(Failure(name, << "Failed to spawn build process: ", IoError >>,
                         None, None), 0)
    ELSE IF ~o.threads
    THEN Panics
    ELSE IF ~o.wait
    THEN Returns(Failure(name, << "Failed to wait for build: ", IoError >>,
                         None, None), 0)
    ELSE LET stdout_output == StdoutReader(o.streams.out)
             stderr_output == StderrReader(o.streams.err)
         IN  IF o.code # 0
             THEN Returns(Failure(name,
                      << "Build failed with exit code: ", DebugCode(o.code) >>,
                      ErrorOutput(CombinedOutput(stdout_output, stderr_output)),
                      Some(Elapsed)), 0)
             ELSE LET a == CollectArtifact(name, o.fs)
                  IN  IF a.ok
                      THEN Returns(Success(name, a.path), 1)
                      ELSE Returns(Failure(name,
                               << "Failed to collect artifact: " >> \o a.err,
                               None, Some(Elapsed)), 1)

\* build_target_verbose_parallel: parallel mode, the child's lines are
\* streamed with a prefix and not kept.
BuildTargetVerboseParallel(name, ccache, o) ==
    IF ~ccache
    THEN Returns(Failure(name, << "Failed to get ccache dir: ", CacheDirError >>,
                         None, None), 0)
    ELSE IF ~o.spawn
    THEN Returns(Failure(name, << "Failed to spawn build process: ", IoError >>,
                         None, None), 0)
    ELSE IF ~o.threads
    THEN Panics
    ELSE IF ~o.wait
    THEN Returns(Failure(name, << "Failed to wait for build: ", IoError >>,
                         None, Some(Elapsed)), 0)
    ELSE IF o.code # 0
    THEN Returns(Failure(name,
             << "Build failed with exit code: ", DebugCode(o.code) >>,
             None, Some(Elapsed)), 0)
    ELSE LET a == CollectArtifact(name, o.fs)
         IN  IF a.ok
             THEN Returns(Success(name, a.path), 1)
             ELSE Returns(Failure(name,
                      << "Failed to collect artifact: " >> \o a.err,
                      None, Some(Elapsed)), 1)

\* build_target_verbose_inner: sequential mode, the child inherits the
\* terminal and cmd.status() spawns and waits in one call.
BuildTargetVerboseInner(name, ccache, o) ==
    IF ~ccache
    THEN Returns(Failure(name, << "Failed to get ccache dir: ", CacheDirError >>,
                         None, None), 0)
    ELSE IF ~o.spawn \/ ~o.wait
    THEN Returns(Failure(name, << "Failed to run build: ", IoError >>,
                         None, None), 0)
    ELSE IF o.code # 0
    THEN Returns(Failure(name,
             << "Build failed with exit code: ", DebugCode(o.code) >>,
             None, Some(Elapsed)), 0)
    ELSE LET a == CollectArtifact(name, o.fs)
         IN  IF a.ok
             THEN Returns(Success(name, a.path), 1)
             ELSE Returns(Failure(name,
                      << "Failed to collect artifact: " >> \o a.err,
                      None, Some(Elapsed)), 1)

\* The build function build_sequential calls for a target.
SequentialBuild(isVerbose, name, ccache, o) ==
    IF isVerbose THEN BuildTargetVerboseInner(name, ccache, o)
                 ELSE BuildTargetInner(name, ccache, o)

\* The build function a task thread of build_parallel calls: build_parallel
\* hands the whole run to build_parallel_verbose when verbose is set.
ParallelBuild(isVerbose, name, ccache, o) ==
    IF isVerbose THEN BuildTargetVerboseParallel(name, ccache, o)
                 ELSE BuildTargetWithProgress(name, ccache, o)

\* The west command a build function hands to the container: the arguments
\* are made first, the command is spawned once the cache directory is known.
WestCommand(name, ccache_ok, is_pristine) ==
    IF ccache_ok
    THEN Some(WestBuildArgs(name, "/workspace/config", is_pristine))
    ELSE None

\* ------------------------------------------------------------------- state

VARIABLES
    entry,      \* the entry point called: "sequential" or "parallel"
    verbose,    \* BuildOrchestrator::verbose
    max_jobs,   \* the max_jobs handed to build_parallel
    targets,    \* the target list: a sequence of artifact names
    ccache,     \* whether paths::ccache_dir() succeeds in this process
    env,        \* per target, the outcomes the environment can produce
    pcMain,     \* where the calling thread is
    idx,        \* the calling thread's loop index
    pc,         \* where each task thread is
    count,      \* Semaphore::count
    outcome,    \* what the environment did to each target's build
    result,     \* each task thread's local `result`, until it is pushed
    results,    \* the result collection
    collects,   \* calls of collect_artifact per target
    ret,        \* what the entry point returned, once it has
    pristine,   \* BuildOrchestrator::pristine
    west_args,  \* per target, the west arguments its build was dispatched with
    inputs,     \* the project's configuration files and directories on disk
    hash_file,  \* the snapshot file .lfz_build_hashes.json of the workspace
    op,         \* the last call of the hash tracker: its arguments and result
    last_saved, \* the hashes saved since the file was last touched otherwise,
                \* the most recent last: the last two of them
    output_dir, \* the output directory: whether it exists, the files in it
    build_dir,  \* per artifact name, the firmware files in build/<name>: the
                \* candidate paths that exist, and those of them the last
                \* toolchain child to run in the directory wrote
    pipes,      \* one toolchain child with its two pipes, the reader threads
                \* and the task that waits for it
    quiet,      \* BuildOrchestrator::quiet
    progress,   \* the progress board of build_parallel: None, or Some(BuildProgress)
    channel,    \* per target, the progress channel of build_target_with_progress:
                \* the lines its stdout reader has yet to read, the strings
                \* sent and not received, and the strings shown
    mutex,      \* the task thread that holds the mutex of the result
                \* collection, 0 when it is free
    workspace   \* the west workspace of the project: whether it is initialized,
                \* its west.yml hash file, and the calls of get_or_create

\* The progress channels, the mutex of the result collection and the west
\* workspace.
syncVars == << channel, mutex, workspace >>

\* What the builds find on disk and the record of the tracker's calls.
diskVars == << pristine, inputs, hash_file, op, last_saved >>

vars == << entry, verbose, max_jobs, targets, ccache, env, pcMain, idx, pc, count,
           outcome, result, results, collects, ret, diskVars, west_args,
           output_dir, build_dir, pipes, syncVars, quiet, progress >>

N == Len(targets)
Threads == 1..N

\* The task threads that hold a permit: acquire has returned, the permit is
\* not dropped yet.
Holders == { i \in Threads : pc[i] \in {"building", "push", "drop", "unwind"} }
\* The task threads blocked in Condvar::wait.
Waiters == { i \in Threads : pc[i] = "waiting" }
\* The task threads whose closure is still alive: each owns a clone of the
\* Arc around the result collection.
Alive == { i \in Threads : pc[i] \notin {"idle", "finished", "panicked"} }
\* Arc::strong_count(&results): the caller's own and one per live closure,
\* counting the clones the spawn loop has yet to hand over as the caller's.
ArcStrongCount == 1 + Cardinality(Alive)

\* The outcomes the environment can choose from: none is consulted when the
\* cache directory cannot be determined, the build function returns first.
OutcomesFor(i) == IF ccache THEN env[i] ELSE { NoOutcome }

\* The order in which read_dir happens to list a directory, if there is one.
ListingOf(dir) == IF IsSome(dir) THEN CHOOSE s \in Listings(dir[1]) : TRUE ELSE << >>

\* The hashes of the project inputs as BuildHashes::calculate gives them for
\* readable inputs.
CurrentHashes(inp) ==
    Calculate(inp, [boards |-> ListingOf(inp.boards),
                    shields |-> ListingOf(inp.shields)]).value

\* A call of the hash tracker as `op` records it: the function, the
\* BuildHashes handed to it if any, the Result of load or save, and the
\* answer of is_incremental_safe.
Call(fn, hashes, returned, answer) ==
    [name |-> fn, arg |-> hashes, ret |-> returned, safe |-> answer]

\* No call of the hash tracker has been made.
NoCall == Call("none", None, Ok(None), FALSE)

\* A project with its two configuration files and neither a boards nor a
\* shields directory.
PlainInputs ==
    [build_yaml |-> Some(<< "x" >>), west_yml |-> Some(<< "x" >>),
     boards |-> None, shields |-> None]

\* An orchestrator built for a pristine build (cli::build::run called with
\* incremental = false) on a workspace that holds no snapshot.
FreshWorkspace ==
    /\ pristine = TRUE
    /\ inputs = PlainInputs
    /\ hash_file = AbsentFile

\* No toolchain child is looked at on its own.
NoPipes ==
    [fn |-> "none", script |-> << >>, child |-> "exited",
     buffer |-> [stdout |-> << >>, stderr |-> << >>],
     read_end |-> [stdout |-> "closed", stderr |-> "closed"],
     written |-> [stdout |-> << >>, stderr |-> << >>],
     captured |-> [stdout |-> << >>, stderr |-> << >>],
     task |-> "done", status |-> None]

\* A build directory without firmware files.
NoBuildDir == [files |-> {}, written |-> {}]

\* The build directories after the toolchain child of a build of `name` has
\* ended.  west build -p starts from an empty build directory, without -p
\* the files of earlier builds stay.  A child that exited with 0 (the
\* resolver is called for it) leaves the candidates the resolver finds:
\* the files kept from earlier builds and the ones it wrote itself, which
\* are at least those that were not there before.  Any other child is taken
\* to leave no firmware of its own.  No child runs when the cache directory
\* cannot be determined or the spawn fails.
ToolchainLeaves(name, o, exited_zero) ==
    LET kept == IF pristine THEN {} ELSE build_dir[name].files
    IN  IF ~ccache \/ ~o.spawn THEN { build_dir }
        ELSE IF ~exited_zero
        THEN { [build_dir EXCEPT ![name] = [files |-> kept, written |-> {}]] }
        ELSE { [build_dir EXCEPT ![name] = [files |-> o.fs.cands, written |-> w]] :
                 w \in { x \in SUBSET o.fs.cands : kept \cup x = o.fs.cands } }

\* The progress strings a task sends to the board: "[current/total]" of a
\* line of stdout that parse_build_progress accepts.
ProgressMessages == { "[1/2]", "[2/2]" }

\* The bar of target i on the board.
Bar(i) == progress[1].bars[i]

\* A variant of the arguments in which a build whose artifact is missing is
\* shown as a success.
FinishArgsExitCodeOnly(name, ccache_ok, o) ==
    IF ~ccache_ok \/ ~o.spawn \/ ~o.wait
    THEN [success |-> FALSE, artifact |-> None, duration |-> None]
    ELSE [success |-> o.code = 0, artifact |-> None, duration |-> Some(Elapsed)]

\* The arguments of the call of finish on each path of
\* build_target_with_progress that returns.
FinishArgs(name, ccache_ok, o) ==
    IF ~ccache_ok \/ ~o.spawn \/ ~o.wait
    THEN [success |-> FALSE, artifact |-> None, duration |-> None]
    ELSE IF o.code # 0
    THEN [success |-> FALSE, artifact |-> None, duration |-> Some(Elapsed)]
    ELSE LET a == CollectArtifact(name, o.fs)
         IN  IF a.ok
             THEN [success |-> TRUE, artifact |-> Some(FileName(a.path)),
                   duration |-> Some(Elapsed)]
             ELSE [success |-> FALSE, artifact |-> None,
                   duration |-> Some(Elapsed)]

\* A variant of build_parallel that creates the board for a quiet
\* orchestrator too.
BoardAtEntryIgnoresQuiet ==
    IF ~verbose THEN Some(BuildProgressNew(targets)) ELSE None

\* The board, if there is one, when build_parallel is entered.
BoardAtEntry ==
    IF ~verbose /\ ~quiet THEN Some(BuildProgressNew(targets)) ELSE None

\* With a board, the rest of build_target_with_progress runs once the bar
\* has been set to Starting; progress strings have been shown only if the
\* child and its reader threads were spawned.
BoardAllows(i, o) ==
    IsSome(progress) =>
        /\ Bar(i).prefix # Prefix("Pending")
        /\ Bar(i).prefix = Prefix("Running") => ccache /\ o.spawn /\ o.threads

\* The board after the build function of target i: finish has been called
\* unless the function panicked.
BoardAfterBuild(i, o, panicked) ==
    IF IsNone(progress) \/ panicked THEN progress
    ELSE LET f == FinishArgs(targets[i], ccache, o)
         IN  Some(Finish(progress[1], i, f.success, f.artifact, f.duration))

\* The state when an entry point of a freshly built orchestrator is called
\* with one of `lists`, one of `jobs` and an environment that draws each
\* target's outcome from outs[i].
InitFields(lists, jobs, outs) ==
    /\ entry \in {"sequential", "parallel"}
    /\ verbose \in BOOLEAN
    /\ max_jobs \in jobs
    /\ targets \in lists
    /\ ccache \in BOOLEAN
    /\ env = [i \in 1..Len(targets) |-> outs[i]]
    /\ pcMain = "start"
    /\ idx = 1
    /\ pc = [i \in 1..Len(targets) |-> "idle"]
    /\ count = 0
    /\ outcome = [i \in 1..Len(targets) |-> NoOutcome]
    /\ result = [i \in 1..Len(targets) |-> None]
    /\ results = << >>
    /\ collects = [i \in 1..Len(targets) |-> 0]
    /\ ret = None
    /\ west_args = [i \in 1..Len(targets) |-> None]
    /\ op = NoCall
    /\ last_saved = << >>
    /\ output_dir = NoOutputDir
    /\ build_dir = [n \in { targets[i] : i \in 1..Len(targets) } |-> NoBuildDir]

\* No progress channel, the mutex free, the workspace not looked at.
\* Mutex::new: neither the mutex of the result collection nor the one of the
\* board's recorded results is held; a held mutex names the task thread.
Unlocked == [m \in {"results", "board"} |-> 0]

NoWorkspace == [west |-> FALSE, hash_file |-> None, synced |-> None, calls |-> << >>]

InitOrchestrator(lists, jobs, outs) ==
    /\ InitFields(lists, jobs, outs)
    /\ channel = << >>
    /\ mutex = Unlocked
    /\ workspace = NoWorkspace

\* A run of the orchestrator; no child has been spawned.
InitRun(lists, jobs, outs) ==
    /\ InitOrchestrator(lists, jobs, outs)
    /\ pipes = NoPipes
    /\ quiet = TRUE
    /\ progress = None

\* Runs of up to MaxTargets targets, each build failing, succeeding or
\* panicking.
Init ==
    /\ InitRun(TargetLists(MaxTargets), 0..MaxJobs,
               [i \in 1..Len(NamePool) |-> CoreOutcomes])
    /\ FreshWorkspace

\* Runs of up to MaxDetailTargets targets with every outcome.
DetailInit ==
    /\ InitRun(TargetLists(MaxDetailTargets), 0..MaxJobs,
               [i \in 1..Len(NamePool) |-> Outcomes])
    /\ FreshWorkspace

\* Runs of up to MaxTargets targets, each build failing or succeeding.
FairInit ==
    /\ InitRun(TargetLists(MaxTargets), 0..MaxJobs,
               [i \in 1..Len(NamePool) |-> FairOutcomes])
    /\ FreshWorkspace

\* The scenario of three targets a, b, c and two jobs: the child of b exits
\* with code 1, the children of a and c exit with 0 and leave an artifact.
ScenarioInit ==
    /\ InitRun({ SubSeq(NamePool, 1, 3) }, { 2 },
               [i \in 1..Len(NamePool) |->
                  IF i = 2
                  THEN { o \in Outcomes : o.code = 1 }
                  ELSE { o \in Outcomes :
                           /\ o.spawn /\ o.threads /\ o.wait /\ o.code = 0
                           /\ o.fs.cands # {} /\ o.fs.io = "ok" }])
    /\ ccache
    /\ FreshWorkspace

\* ------------------------------------------------------------ build_sequential

\* build_sequential is entered: an empty Vec, the loop starts.
EnterSequential ==
    /\ pcMain = "start"
    /\ entry = "sequential"
    /\ pcMain' = "loop"
    /\ results' = << >>
    /\ UNCHANGED << diskVars, west_args, output_dir, build_dir, pipes, syncVars, quiet, progress,
                    entry, verbose, max_jobs, targets, ccache, env, idx, pc, count,
                    outcome, result, collects, ret >>

\* A variant of the loop's iteration that puts the result in front of the
\* earlier ones.
SequentialStepPrepends ==
    /\ pcMain = "loop"
    /\ idx <= N
    /\ \E o \in OutcomesFor(idx) :
         LET r == SequentialBuild(verbose, targets[idx], ccache, o)
         IN  /\ outcome' = [outcome EXCEPT ![idx] = o]
             /\ output_dir' = IF r.collects = 1
                              THEN CollectEffect(targets[idx], o.fs, output_dir)
                              ELSE output_dir
             /\ build_dir' \in ToolchainLeaves(targets[idx], o, r.collects = 1)
             /\ collects' = [collects EXCEPT ![idx] = @ + r.collects]
             /\ IF r.panic
                THEN /\ pcMain' = "panicked"
                     /\ UNCHANGED << results, idx >>
                ELSE /\ results' = << r.result >> \o results
                     /\ idx' = idx + 1
                     /\ UNCHANGED pcMain
    /\ west_args' = [west_args EXCEPT ![idx] = WestCommand(targets[idx], ccache, pristine)]
    /\ UNCHANGED << diskVars, pipes, syncVars, quiet, progress,
                    entry, verbose, max_jobs, targets, ccache, env, pc, count,
                    result, ret >>

\* One iteration of the loop: the target is built on the calling thread and
\* its result pushed; a panic of the build function unwinds the call.
SequentialStep ==
    /\ pcMain = "loop"
    /\ idx <= N
    /\ \E o \in OutcomesFor(idx) :
         LET r == SequentialBuild(verbose, targets[idx], ccache, o)
         IN  /\ outcome' = [outcome EXCEPT ![idx] = o]
             /\ output_dir' = IF r.collects = 1
                              THEN CollectEffect(targets[idx], o.fs, output_dir)
                              ELSE output_dir
             /\ build_dir' \in ToolchainLeaves(targets[idx], o, r.collects = 1)
             /\ collects' = [collects EXCEPT ![idx] = @ + r.collects]
             /\ IF r.panic
                THEN /\ pcMain' = "panicked"
                     /\ UNCHANGED << results, idx >>
                ELSE /\ results' = Append(results, r.result)
                     /\ idx' = idx + 1
                     /\ UNCHANGED pcMain
    /\ west_args' = [west_args EXCEPT ![idx] = WestCommand(targets[idx], ccache, pristine)]
    /\ UNCHANGED << diskVars, pipes, syncVars, quiet, progress,
                    entry, verbose, max_jobs, targets, ccache, env, pc, count,
                    result, ret >>

\* The loop is over: Ok(results).
SequentialReturn ==
    /\ pcMain = "loop"
    /\ idx > N
    /\ pcMain' = "done"
    /\ ret' = Some(Ok(results))
    /\ UNCHANGED << diskVars, west_args, output_dir, build_dir, pipes, syncVars, quiet, progress,
                    entry, verbose, max_jobs, targets, ccache, env, idx, pc, count,
                    outcome, result, results, collects >>

\* ------------------------------------------------------------------ Semaphore

\* Semaphore::new(count)
SemaphoreNew(n) == n

\* A variant of Semaphore::acquire without the wait loop.
AcquireNoWait(i) ==
    /\ pc[i] = "acquire"
    /\ count' = count - 1
    /\ pc' = [pc EXCEPT ![i] = "building"]
    /\ UNCHANGED << diskVars, west_args, output_dir, build_dir, pipes, syncVars, quiet, progress,
                    entry, verbose, max_jobs, targets, ccache, env, pcMain, idx,
                    outcome, result, results, collects, ret >>

\* Semaphore::acquire, from taking the mutex to returning the permit or to
\* blocking in Condvar::wait (which releases the mutex); a woken thread takes
\* the mutex and evaluates the loop condition again.
Acquire(i) ==
    /\ pc[i] = "acquire"
    /\ IF count = 0
       THEN /\ pc' = [pc EXCEPT ![i] = "waiting"]
            /\ UNCHANGED count
       ELSE /\ count' = count - 1
            /\ pc' = [pc EXCEPT ![i] = "building"]
    /\ UNCHANGED << diskVars, west_args, output_dir, build_dir, pipes, syncVars, quiet, progress,
                    entry, verbose, max_jobs, targets, ccache, env, pcMain, idx,
                    outcome, result, results, collects, ret >>

\* Condvar::wait may return without a notification.
SpuriousWakeup(i) ==
    /\ pc[i] = "waiting"
    /\ pc' = [pc EXCEPT ![i] = "acquire"]
    /\ UNCHANGED << diskVars, west_args, output_dir, build_dir, pipes, syncVars, quiet, progress,
                    entry, verbose, max_jobs, targets, ccache, env, pcMain, idx,
                    count, outcome, result, results, collects, ret >>

\* Condvar::notify_one: the thread states after thread i has moved to `next`
\* and one blocked thread, if there is any, has been woken.
NotifyOne(i, next) ==
    IF Waiters = {}
    THEN { [pc EXCEPT ![i] = next] }
    ELSE { [pc EXCEPT ![i] = next, ![w] = "acquire"] : w \in Waiters }

\* A variant of SemaphorePermit::drop that notifies nobody.
DropPermitNoNotify(i) ==
    /\ pc[i] \in {"drop", "unwind"}
    /\ count' = count + 1
    /\ pc' = [pc EXCEPT ![i] = IF pc[i] = "drop" THEN "finished" ELSE "panicked"]
    /\ UNCHANGED << diskVars, west_args, output_dir, build_dir, pipes, syncVars, quiet, progress,
                    entry, verbose, max_jobs, targets, ccache, env, pcMain, idx,
                    outcome, result, results, collects, ret >>

\* SemaphorePermit::drop at the end of the closure, or while it unwinds:
\* under the mutex the count goes up by one and one waiter is notified.
DropPermit(i) ==
    /\ pc[i] \in {"drop", "unwind"}
    /\ count' = count + 1
    /\ pc' \in NotifyOne(i, IF pc[i] = "drop" THEN "finished" ELSE "panicked")
    /\ UNCHANGED << diskVars, west_args, output_dir, build_dir, pipes, syncVars, quiet, progress,
                    entry, verbose, max_jobs, targets, ccache, env, pcMain, idx,
                    outcome, result, results, collects, ret >>

\* -------------------------------------------------------------- build_parallel

\* A variant of build_parallel that hands a verbose run to the loop of
\* build_sequential.
EnterParallelVerboseSequential ==
    /\ pcMain = "start"
    /\ entry = "parallel"
    /\ pcMain' = IF verbose THEN "loop" ELSE "spawn"
    /\ results' = << >>
    /\ count' = IF verbose THEN count ELSE SemaphoreNew(max_jobs)
    /\ progress' = BoardAtEntry
    /\ UNCHANGED << diskVars, west_args, output_dir, build_dir, pipes, syncVars, quiet,
                    entry, verbose, max_jobs, targets, ccache, env, idx, pc,
                    outcome, result, collects, ret >>

\* build_parallel (or build_parallel_verbose, to which it hands a verbose
\* run) is entered: the result collection and the semaphore are created.
EnterParallel ==
    /\ pcMain = "start"
    /\ entry = "parallel"
    /\ pcMain' = "spawn"
    /\ results' = << >>
    /\ count' = SemaphoreNew(max_jobs)
    /\ progress' = BoardAtEntry
    /\ UNCHANGED << diskVars, west_args, output_dir, build_dir, pipes, syncVars, quiet,
                    entry, verbose, max_jobs, targets, ccache, env, idx, pc,
                    outcome, result, collects, ret >>

\* The spawn loop: one task thread per target, in target order.
SpawnThread ==
    /\ pcMain = "spawn"
    /\ idx <= N
    /\ pc' = [pc EXCEPT ![idx] = "acquire"]
    /\ idx' = idx + 1
    /\ UNCHANGED << diskVars, west_args, output_dir, build_dir, pipes, syncVars, quiet, progress,
                    entry, verbose, max_jobs, targets, ccache, env, pcMain, count,
                    outcome, result, results, collects, ret >>

\* The spawn loop is over, the join loop starts.
SpawnDone ==
    /\ pcMain = "spawn"
    /\ idx > N
    /\ pcMain' = "join"
    /\ idx' = 1
    /\ UNCHANGED << diskVars, west_args, output_dir, build_dir, pipes, syncVars, quiet, progress,
                    entry, verbose, max_jobs, targets, ccache, env, pc, count,
                    outcome, result, results, collects, ret >>

\* A variant of the task thread's build that unwraps the build's success: a
\* failed build panics the thread.
BuildUnwrapsFailure(i) ==
    /\ pc[i] = "building"
    /\ \E o \in OutcomesFor(i) :
         LET r == ParallelBuild(verbose, targets[i], ccache, o)
         IN  /\ BoardAllows(i, o)
             /\ outcome' = [outcome EXCEPT ![i] = o]
             /\ progress' = BoardAfterBuild(i, o, r.panic)
             /\ output_dir' = IF r.collects = 1
                              THEN CollectEffect(targets[i], o.fs, output_dir)
                              ELSE output_dir
             /\ build_dir' \in ToolchainLeaves(targets[i], o, r.collects = 1)
             /\ collects' = [collects EXCEPT ![i] = @ + r.collects]
             /\ IF r.panic \/ ~r.result.success
                THEN /\ pc' = [pc EXCEPT ![i] = "unwind"]
                     /\ UNCHANGED result
                ELSE /\ pc' = [pc EXCEPT ![i] = "push"]
                     /\ result' = [result EXCEPT ![i] = Some(r.result)]
    /\ west_args' = [west_args EXCEPT ![i] = WestCommand(targets[i], ccache, pristine)]
    /\ UNCHANGED << diskVars, pipes, syncVars, quiet,
                    entry, verbose, max_jobs, targets, ccache, env, pcMain, idx,
                    count, results, ret >>

\* A variant of the task thread's build in which a panic of the build
\* function ends the thread with the permit still held.
BuildLeaksPermitOnPanic(i) ==
    /\ pc[i] = "building"
    /\ \E o \in OutcomesFor(i) :
         LET r == ParallelBuild(verbose, targets[i], ccache, o)
         IN  /\ BoardAllows(i, o)
             /\ outcome' = [outcome EXCEPT ![i] = o]
             /\ progress' = BoardAfterBuild(i, o, r.panic)
             /\ output_dir' = IF r.collects = 1
                              THEN CollectEffect(targets[i], o.fs, output_dir)
                              ELSE output_dir
             /\ build_dir' \in ToolchainLeaves(targets[i], o, r.collects = 1)
             /\ collects' = [collects EXCEPT ![i] = @ + r.collects]
             /\ IF r.panic
                THEN /\ pc' = [pc EXCEPT ![i] = "panicked"]
                     /\ UNCHANGED result
                ELSE /\ pc' = [pc EXCEPT ![i] = "push"]
                     /\ result' = [result EXCEPT ![i] = Some(r.result)]
    /\ west_args' = [west_args EXCEPT ![i] = WestCommand(targets[i], ccache, pristine)]
    /\ UNCHANGED << diskVars, pipes, syncVars, quiet,
                    entry, verbose, max_jobs, targets, ccache, env, pcMain, idx,
                    count, results, ret >>

\* A variant of the task thread's build that saves the hashes of the inputs
\* once the build function has returned, whatever the result and the mode.
BuildSavesHashes(i) ==
    /\ pc[i] = "building"
    /\ \E o \in OutcomesFor(i) :
         LET r == ParallelBuild(verbose, targets[i], ccache, o)
         IN  /\ BoardAllows(i, o)
             /\ outcome' = [outcome EXCEPT ![i] = o]
             /\ progress' = BoardAfterBuild(i, o, r.panic)
             /\ output_dir' = IF r.collects = 1
                              THEN CollectEffect(targets[i], o.fs, output_dir)
                              ELSE output_dir
             /\ build_dir' \in ToolchainLeaves(targets[i], o, r.collects = 1)
             /\ collects' = [collects EXCEPT ![i] = @ + r.collects]
             /\ IF r.panic
                THEN /\ pc' = [pc EXCEPT ![i] = "unwind"]
                     /\ UNCHANGED << result, hash_file >>
                ELSE /\ pc' = [pc EXCEPT ![i] = "push"]
                     /\ result' = [result EXCEPT ![i] = Some(r.result)]
                     /\ hash_file' = TextFile(ToStringPretty(CurrentHashes(inputs)))
    /\ west_args' = [west_args EXCEPT ![i] = WestCommand(targets[i], ccache, pristine)]
    /\ UNCHANGED << pristine, inputs, op, last_saved, pipes, syncVars, quiet,
                    entry, verbose, max_jobs, targets, ccache, env, pcMain, idx,
                    count, results, ret >>

\* The task thread's build: the permit is held, the build function runs to
\* its result or panics.
Build(i) ==
    /\ pc[i] = "building"
    /\ \E o \in OutcomesFor(i) :
         LET r == ParallelBuild(verbose, targets[i], ccache, o)
         IN  /\ BoardAllows(i, o)
             /\ outcome' = [outcome EXCEPT ![i] = o]
             /\ progress' = BoardAfterBuild(i, o, r.panic)
             /\ output_dir' = IF r.collects = 1
                              THEN CollectEffect(targets[i], o.fs, output_dir)
                              ELSE output_dir
             /\ build_dir' \in ToolchainLeaves(targets[i], o, r.collects = 1)
             /\ collects' = [collects EXCEPT ![i] = @ + r.collects]
             /\ IF r.panic
                THEN /\ pc' = [pc EXCEPT ![i] = "unwind"]
                     /\ UNCHANGED result
                ELSE /\ pc' = [pc EXCEPT ![i] = "push"]
                     /\ result' = [result EXCEPT ![i] = Some(r.result)]
    /\ west_args' = [west_args EXCEPT ![i] = WestCommand(targets[i], ccache, pristine)]
    /\ UNCHANGED << diskVars, pipes, syncVars, quiet,
                    entry, verbose, max_jobs, targets, ccache, env, pcMain, idx,
                    count, results, ret >>

\* A variant of the push that puts the result in front of the earlier ones.
PushAtFront(i) ==
    /\ pc[i] = "push"
    /\ results' = << result[i][1] >> \o results
    /\ result' = [result EXCEPT ![i] = None]
    /\ pc' = [pc EXCEPT ![i] = "drop"]
    /\ UNCHANGED << diskVars, west_args, output_dir, build_dir, pipes, syncVars, quiet, progress,
                    entry, verbose, max_jobs, targets, ccache, env, pcMain, idx,
                    count, outcome, collects, ret >>

\* A variant of the push that leaves out the results of failed builds.
PushUnlessFailed(i) ==
    /\ pc[i] = "push"
    /\ results' = IF result[i][1].success THEN Append(results, result[i][1])
                                          ELSE results
    /\ result' = [result EXCEPT ![i] = None]
    /\ pc' = [pc EXCEPT ![i] = "drop"]
    /\ UNCHANGED << diskVars, west_args, output_dir, build_dir, pipes, syncVars, quiet, progress,
                    entry, verbose, max_jobs, targets, ccache, env, pcMain, idx,
                    count, outcome, collects, ret >>

\* results.lock().unwrap().push(result): the result moves into the
\* collection under its mutex, which is released before the permit drops.
Push(i) ==
    /\ pc[i] = "push"
    /\ results' = Append(results, result[i][1])
    /\ result' = [result EXCEPT ![i] = None]
    /\ pc' = [pc EXCEPT ![i] = "drop"]
    /\ UNCHANGED << diskVars, west_args, output_dir, build_dir, pipes, syncVars, quiet, progress,
                    entry, verbose, max_jobs, targets, ccache, env, pcMain, idx,
                    count, outcome, collects, ret >>

\* A variant of the join loop that discards the outcome of join.
JoinThreadIgnoresPanic ==
    /\ pcMain = "join"
    /\ idx <= N
    /\ pc[idx] \in {"finished", "panicked"}
    /\ idx' = idx + 1
    /\ UNCHANGED << diskVars, west_args, output_dir, build_dir, pipes, syncVars, quiet, progress,
                    entry, verbose, max_jobs, targets, ccache, env, pcMain, pc,
                    count, outcome, result, results, collects, ret >>

\* handle.join().expect("Build thread panicked"), in target order: it blocks
\* until the thread has ended and panics when the thread panicked.
JoinThread ==
    /\ pcMain = "join"
    /\ idx <= N
    /\ pc[idx] \in {"finished", "panicked"}
    /\ IF pc[idx] = "panicked"
       THEN /\ pcMain' = "panicked"
            /\ UNCHANGED idx
       ELSE /\ idx' = idx + 1
            /\ UNCHANGED pcMain
    /\ UNCHANGED << diskVars, west_args, output_dir, build_dir, pipes, syncVars, quiet, progress,
                    entry, verbose, max_jobs, targets, ccache, env, pc, count,
                    outcome, result, results, collects, ret >>

\* Arc::try_unwrap(results).expect(..).into_inner().unwrap(), then
\* Ok(results): try_unwrap fails while a clone of the Arc is alive.
ParallelReturn ==
    /\ pcMain = "join"
    /\ idx > N
    /\ IF ArcStrongCount = 1
       THEN /\ pcMain' = "done"
            /\ ret' = Some(Ok(results))
       ELSE /\ pcMain' = "panicked"
            /\ UNCHANGED ret
    /\ progress' = IF IsSome(progress) THEN Some(PrintResults(progress[1]))
                                    ELSE progress
    /\ UNCHANGED << diskVars, west_args, output_dir, build_dir, pipes, syncVars, quiet,
                    entry, verbose, max_jobs, targets, ccache, env, idx, pc, count,
                    outcome, result, results, collects >>

\* ---------------------------------------------------------------- behaviours

Main ==
    \/ EnterSequential
    \/ SequentialStep
    \/ SequentialReturn
    \/ EnterParallel
    \/ SpawnThread
    \/ SpawnDone
    \/ JoinThread
    \/ ParallelReturn

Worker(i) ==
    \/ Acquire(i)
    \/ Build(i)
    \/ Push(i)
    \/ DropPermit(i)

Next ==
    \/ Main
    \/ \E i \in Threads : Worker(i)
    \/ \E i \in Threads : SpuriousWakeup(i)

Spec == Init /\ [][Next]_vars

DetailSpec == DetailInit /\ [][Next]_vars

ScenarioSpec == ScenarioInit /\ [][Next]_vars

\* The scheduler runs every thread that can take a step; a spurious wake-up
\* is never owed.
FairSpec ==
    /\ FairInit
    /\ [][Next]_vars
    /\ WF_vars(Main)
    /\ \A i \in 1..Len(NamePool) : WF_vars(i \in Threads /\ Worker(i))

\* -------------------------------------------------------- a sequence of runs

\* A boards directory with one board file, before and after an edit of it.
BoardsBefore == (<< << "a" >> >> :> << "x" >>)
BoardsAfter == (<< << "a" >> >> :> << "y" >>)

\* The project inputs of the runs: without a boards directory, with one,
\* and with its file edited.
RunInputs ==
    { PlainInputs,
      [PlainInputs EXCEPT !.boards = Some(BoardsBefore)],
      [PlainInputs EXCEPT !.boards = Some(BoardsAfter)] }

\* The snapshot file as a run may find it: none, one that does not parse, or
\* one saved for some state of the inputs.
RunSnapshots ==
    { AbsentFile, TextFile(NotJson) }
    \cup { TextFile(ToStringPretty(CurrentHashes(inp))) : inp \in RunInputs }

\* cli::build::run has built its orchestrator with pristine = !incremental
\* and calls build_sequential when verbose, build_parallel with at least one
\* job otherwise.
RunsInit ==
    /\ InitRun(TargetLists(MaxDetailTargets), 1..MaxJobs,
               [i \in 1..Len(NamePool) |-> FairOutcomes])
    /\ entry = IF verbose THEN "sequential" ELSE "parallel"
    /\ pristine \in BOOLEAN
    /\ inputs \in RunInputs
    /\ hash_file \in RunSnapshots

\* The command is run again on the same project and workspace: a new
\* orchestrator with pristine = !incremental, the same targets.
Invoke ==
    /\ pcMain \in {"done", "panicked"}
    /\ \A i \in Threads : pc[i] \in {"idle", "finished", "panicked"}
    /\ \E incremental \in BOOLEAN : pristine' = ~incremental
    /\ pcMain' = "start"
    /\ idx' = 1
    /\ pc' = [i \in Threads |-> "idle"]
    /\ count' = 0
    /\ outcome' = [i \in Threads |-> NoOutcome]
    /\ result' = [i \in Threads |-> None]
    /\ results' = << >>
    /\ collects' = [i \in Threads |-> 0]
    /\ ret' = None
    /\ west_args' = [i \in Threads |-> None]
    /\ UNCHANGED << entry, verbose, max_jobs, targets, ccache, env,
                    inputs, hash_file, op, last_saved, output_dir, build_dir, pipes, syncVars, quiet, progress >>

\* Between two runs the user edits the project: the boards directory is
\* added, removed or a file in it is changed.
EditInputs ==
    /\ pcMain = "start"
    /\ inputs' \in RunInputs \ { inputs }
    /\ UNCHANGED << entry, verbose, max_jobs, targets, ccache, env, pcMain, idx,
                    pc, count, outcome, result, results, collects, ret,
                    pristine, west_args, hash_file, op, last_saved, output_dir, build_dir, pipes, syncVars, quiet, progress >>

RunsNext == Next \/ Invoke \/ EditInputs

RunsSpec == RunsInit /\ [][RunsNext]_vars

\* ------------------------------------------------- calls of the hash tracker

\* The strings a field of BuildHashes holds in the calls: a plain one and
\* one with the characters JSON escapes.
HashStrings == { << "a" >>, << "\"", "\\" >> }

\* The BuildHashes values of the calls, every directory hash present or not.
HashValues ==
    [build_yaml : HashStrings, west_yml : HashStrings,
     boards_dir : { None } \cup { Some(x) : x \in HashStrings },
     shields_dir : { None, Some(<< "a" >>) }]

\* A snapshot of plain strings, the base of the hand-written files.
PlainHashes ==
    [build_yaml |-> << "a" >>, west_yml |-> << "a" >>,
     boards_dir |-> None, shields_dir |-> None]

\* Texts that save does not write: no JSON, a null directory hash, a member
\* with an unknown key, a missing field, a field of another type, a field
\* given twice, a string with a broken escape.
ForeignTexts ==
    { NotJson,
      ToStringPretty(PlainHashes) \o << Member("boards_dir", JsonNull) >>,
      ToStringPretty(PlainHashes) \o << Member("comment", JsonNumber) >>,
      << Member("build_yaml", JsonString(<< "a" >>)) >>,
      << Member("build_yaml", JsonNumber), Member("west_yml", JsonString(<< "a" >>)) >>,
      ToStringPretty(PlainHashes) \o << Member("west_yml", JsonString(<< "a" >>)) >>,
      << Member("build_yaml", [t |-> "string", s |-> << "\\", "a" >>]),
         Member("west_yml", JsonString(<< "a" >>)) >>,
      ToStringPretty(PlainHashes) \o << Member("shields_dir", JsonNumber) >> }

\* The states of the snapshot file.
FileStates ==
    { AbsentFile, UnreadableFile }
    \cup { TextFile(t) : t \in ForeignTexts }
    \cup { TextFile(ToStringPretty(h)) : h \in HashValues }

\* A workspace in any state of its snapshot file; no build runs.
TrackerInit ==
    /\ InitRun({ << >> }, { 1 }, [i \in 1..Len(NamePool) |-> FairOutcomes])
    /\ entry = "sequential" /\ ~verbose /\ ccache
    /\ pristine = TRUE
    /\ inputs = PlainInputs
    /\ hash_file \in FileStates

\* What the calls of the tracker leave alone.
buildVars == << entry, verbose, max_jobs, targets, ccache, env, pcMain, idx, pc,
               count, outcome, result, results, collects, ret, pristine,
               west_args, inputs, output_dir, build_dir, pipes, syncVars, quiet, progress >>

\* hashes.save(workspace)
CallSave ==
    /\ \E h \in HashValues : \E saved \in Save(h, hash_file) :
          /\ hash_file' = saved.file
          /\ op' = Call("save", Some(h), saved.ret, FALSE)
          /\ last_saved' = IF ~saved.ret.ok THEN << >>
                           ELSE IF last_saved = << >> THEN << h >>
                           ELSE << last_saved[Len(last_saved)], h >>
    /\ UNCHANGED buildVars

\* BuildHashes::load(workspace)
CallLoad ==
    /\ op' = Call("load", None, Load(hash_file), FALSE)
    /\ UNCHANGED << buildVars, hash_file, last_saved >>

\* is_incremental_safe(workspace, &current)
CallIsIncrementalSafe ==
    /\ \E current \in HashValues :
          op' = Call("is_incremental_safe", Some(current), Ok(None),
                     IsIncrementalSafe(hash_file, current))
    /\ UNCHANGED << buildVars, hash_file, last_saved >>

\* Something else writes, removes or locks the snapshot file.
TouchFile ==
    /\ hash_file' \in FileStates \ { hash_file }
    /\ op' = NoCall
    /\ last_saved' = << >>
    /\ UNCHANGED buildVars

TrackerNext == CallSave \/ CallLoad \/ CallIsIncrementalSafe \/ TouchFile

TrackerSpec == TrackerInit /\ [][TrackerNext]_vars

\* ------------------------------------------------- hashing of a directory

\* The paths of the files of a hashed directory, relative to it: plain
\* names, a file in a subdirectory, and names that are not valid UTF-8.
PathPool ==
    { << << "a" >> >>, << << "b" >> >>, << << "d" >>, << "a" >> >>,
      << << "0xFE" >> >>, << << "0xFF" >> >> }

\* The contents of a file.
FileContents == { << "x" >>, << "y" >> }

\* The directories of up to MaxFiles files.
Directories ==
    UNION { [paths -> FileContents] :
              paths \in { ps \in SUBSET PathPool : Cardinality(ps) <= MaxFiles } }

\* A project whose boards directory is any of the directories; no build
\* runs, the workspace holds no snapshot.
HashingInit ==
    /\ InitRun({ << >> }, { 1 }, [i \in 1..Len(NamePool) |-> FairOutcomes])
    /\ entry = "sequential" /\ ~verbose /\ ccache
    /\ pristine = TRUE
    /\ hash_file = AbsentFile
    /\ \E dir \in Directories : inputs = [PlainInputs EXCEPT !.boards = Some(dir)]

\* What hashing and the edits of the directory leave alone.
hashingFrame == << entry, verbose, max_jobs, targets, ccache, env, pcMain, idx, pc,
                  count, outcome, result, results, collects, ret, pristine,
                  west_args, hash_file, last_saved, output_dir, build_dir, pipes, syncVars, quiet, progress >>

\* The boards directory, and the inputs with the boards directory replaced.
Boards == inputs.boards[1]
WithBoards(dir) == [inputs EXCEPT !.boards = Some(dir)]

\* The directory without the file at path p.
Without(dir, p) == [q \in (DOMAIN dir) \ { p } |-> dir[q]]

\* hash_directory(&boards_dir): read_dir lists the files in some order, one
\* of them may not be readable.
CallHashDirectory ==
    /\ \E listing \in Listings(Boards) :
       \E unreadable \in { {} } \cup { { p } : p \in DOMAIN Boards } :
          op' = Call("hash_directory", None,
                     HashDirectory(Boards, listing, unreadable), FALSE)
    /\ UNCHANGED << hashingFrame, inputs >>

\* The directory has just been hashed: `op` holds its digest.
JustHashed == op.name = "hash_directory" /\ op.ret.ok

\* A file of the hashed directory is renamed; `op` keeps the digest from
\* before.
RenameFile ==
    /\ JustHashed
    /\ \E p \in DOMAIN Boards : \E q \in PathPool \ DOMAIN Boards :
          inputs' = WithBoards((q :> Boards[p]) @@ Without(Boards, p))
    /\ op' = Call("rename", None, op.ret, FALSE)
    /\ UNCHANGED hashingFrame

\* A file is added to the hashed directory.
AddFile ==
    /\ JustHashed
    /\ Cardinality(DOMAIN Boards) < MaxFiles
    /\ \E q \in PathPool \ DOMAIN Boards : \E c \in FileContents :
          inputs' = WithBoards((q :> c) @@ Boards)
    /\ op' = Call("add", None, op.ret, FALSE)
    /\ UNCHANGED hashingFrame

\* The contents of one file of the hashed directory are changed.
WriteFile ==
    /\ JustHashed
    /\ \E p \in DOMAIN Boards : \E c \in FileContents \ { Boards[p] } :
          inputs' = WithBoards([Boards EXCEPT ![p] = c])
    /\ op' = Call("write", None, op.ret, FALSE)
    /\ UNCHANGED hashingFrame

HashingNext == CallHashDirectory \/ RenameFile \/ AddFile \/ WriteFile

HashingSpec == HashingInit /\ [][HashingNext]_vars

\* ------------------------------------------------- runs that reach the resolver

\* The filesystems collect_artifact may find: each of the two candidates
\* there or not; the directory that cannot be made and the copy that fails,
\* each once.
AllFs ==
    [cands : SUBSET {1, 2}, io : {"ok"}]
    \cup { [cands |-> {2}, io |-> "mkdir_err"], [cands |-> {1, 2}, io |-> "copy_err"] }

\* The toolchain exits with 0 for every target; the resolver finds any of
\* the filesystems.
ResolverOutcomes ==
    { [spawn |-> TRUE, threads |-> TRUE, wait |-> TRUE, code |-> 0,
       streams |-> NoStreams, fs |-> f] : f \in AllFs }

ResolverInit ==
    /\ InitRun(TargetLists(MaxDetailTargets), 1..MaxJobs,
               [i \in 1..Len(NamePool) |-> ResolverOutcomes])
    /\ ccache
    /\ FreshWorkspace

ResolverSpec == ResolverInit /\ [][Next]_vars

\* ------------------------------------------- repeated builds of a workspace

\* The toolchain exits with 1, or with 0 having left firmware at any of the
\* candidate paths; the output directory can be made and written.
RebuildOutcomes ==
    { o \in Outcomes : o.spawn /\ o.threads /\ o.wait /\ o.code = 1
                         /\ o.streams = NoStreams }
    \cup { o \in ResolverOutcomes : o.fs.io = "ok" }

\* The target lists that name no artifact twice.
DistinctTargetLists(max) ==
    { l \in TargetLists(max) : \A i, j \in 1..Len(l) : l[i] = l[j] => i = j }

\* cli::build::run on a workspace whose build directories are still empty,
\* in either build mode, for targets with build directories of their own.
RebuildInit ==
    /\ InitRun(DistinctTargetLists(MaxDetailTargets), 1..MaxJobs,
               [i \in 1..Len(NamePool) |-> RebuildOutcomes])
    /\ entry = IF verbose THEN "sequential" ELSE "parallel"
    /\ ccache
    /\ pristine \in BOOLEAN
    /\ inputs = PlainInputs
    /\ hash_file = AbsentFile

\* The command is run again and again on the workspace, the build
\* directories keeping what the earlier runs left in them.
RebuildNext == Next \/ Invoke

RebuildSpec == RebuildInit /\ [][RebuildNext]_vars

\* ------------------------------------------------ runs of the build command

\* Boards and shields of the projects: a plain board, a board with a
\* sysbuild domain qualifier and one whose name is the sanitized form of it.
PlainBoard == << "n" >>
QualifiedBoard == << "x", "/", "/", "z" >>
UnderscoreBoard == << "x", "_", "z" >>
LeftShield == << "l" >>

\* An include entry without options.
Include(board, shield) ==
    [board |-> board, shield |-> shield, cmake_args |-> None, snippet |-> None,
     artifact_name |-> None, group |-> None]

\* The entries the include lists are made of: a board with a shield; the
\* same with a snippet; the same again with cmake-args, an artifact-name
\* and a group; the qualified board and the underscore board.
IncludePool ==
    { Include(PlainBoard, Some(LeftShield)),
      [Include(PlainBoard, Some(LeftShield)) EXCEPT !.snippet = Some("studio-rpc-usb-uart")],
      [Include(PlainBoard, Some(LeftShield)) EXCEPT
          !.snippet = Some("studio-rpc-usb-uart"),
          !.cmake_args = Some(<< "a", " ", " ", "b" >>),
          !.artifact_name = Some(<< "s" >>),
          !.group = Some("central")],
      Include(QualifiedBoard, None),
      Include(UnderscoreBoard, None) }

\* The include lists of up to MaxIncludes entries, no entry written twice.
IncludeLists ==
    { l \in UNION { [1..n -> IncludePool] : n \in 0..MaxIncludes } :
        \A i, j \in 1..Len(l) : l[i] = l[j] => i = j }

\* The build.yaml files as BuildConfig::load parses them: board and shield
\* lists without include entries, or include entries alone.
BuildConfigs ==
    { [board |-> b, shield |-> sh, include |-> << >>] :
        b \in { << >>, << PlainBoard >>, << QualifiedBoard, UnderscoreBoard >> },
        sh \in { << >>, << LeftShield >> } }
    \cup { [board |-> << >>, shield |-> << >>, include |-> inc] : inc \in IncludeLists }

\* The arguments of the build command: a board and a shield, or none and a
\* group; the number of jobs if given; the build mode.
CliArgs ==
    { [board |-> Some(PlainBoard), shield |-> sh, group |-> "all",
       jobs |-> j, incremental |-> inc] :
        sh \in { None, Some(LeftShield) },
        j \in { None } \cup { Some(n) : n \in 0..MaxJobs }, inc \in BOOLEAN }
    \cup
    { [board |-> None, shield |-> None, group |-> g,
       jobs |-> j, incremental |-> inc] :
        g \in { "all", "central" },
        j \in { None } \cup { Some(n) : n \in 0..MaxJobs }, inc \in BOOLEAN }

\* The build command is about to run in a project with one of the
\* build.yaml files, on a workspace whose build directories are empty.
ConfigInit ==
    /\ entry = "cli"
    /\ verbose \in BOOLEAN
    /\ max_jobs = 0
    /\ targets = << >>
    /\ ccache = TRUE
    /\ env = << >>
    /\ pcMain = "cli"
    /\ idx = 1
    /\ pc = << >>
    /\ count = 0
    /\ outcome = << >>
    /\ result = << >>
    /\ results = << >>
    /\ collects = << >>
    /\ ret = None
    /\ west_args = << >>
    /\ op = NoCall
    /\ last_saved = << >>
    /\ output_dir = NoOutputDir
    /\ build_dir = << >>
    /\ pipes = NoPipes
    /\ quiet = TRUE
    /\ progress = None
    /\ channel = << >>
    /\ mutex = Unlocked
    /\ workspace = NoWorkspace
    /\ pristine = TRUE
    /\ inputs \in { [PlainInputs EXCEPT !.build_yaml = Some(c)] : c \in BuildConfigs }
    /\ hash_file = AbsentFile

\* cli::build::run up to the call of the entry point: the targets are
\* determined, an error ending the command; the number of jobs is the
\* number given or else the number of targets, and at least one; the
\* orchestrator is built with pristine = !incremental and build_sequential
\* is called when verbose, build_parallel otherwise.
CliBuild ==
    /\ pcMain = "cli"
    /\ \E a \in CliArgs :
         LET determined == DetermineTargets(a.board, a.shield, a.group,
                                            inputs.build_yaml[1])
         IN  IF ~determined.ok
             THEN /\ pcMain' = "done"
                  /\ ret' = Some(determined)
                  /\ UNCHANGED << entry, max_jobs, targets, env, pc, outcome,
                                  result, collects, west_args, build_dir, pristine >>
             ELSE LET list == determined.value
                      n == Len(list)
                      given == IF IsSome(a.jobs) THEN a.jobs[1] ELSE n
                      num_jobs == IF given >= 1 THEN given ELSE 1
                  IN  /\ targets' = [i \in 1..n |-> list[i].artifact_name]
                      /\ max_jobs' = num_jobs
                      /\ pristine' = ~a.incremental
                      /\ entry' = IF verbose THEN "sequential" ELSE "parallel"
                      /\ pcMain' = "start"
                      /\ env' = [i \in 1..n |-> FairOutcomes]
                      /\ pc' = [i \in 1..n |-> "idle"]
                      /\ outcome' = [i \in 1..n |-> NoOutcome]
                      /\ result' = [i \in 1..n |-> None]
                      /\ collects' = [i \in 1..n |-> 0]
                      /\ west_args' = [i \in 1..n |-> None]
                      /\ build_dir' = [d \in { list[i].artifact_name : i \in 1..n }
                                         |-> NoBuildDir]
                      /\ UNCHANGED ret
    /\ UNCHANGED << verbose, ccache, idx, count, results, op, last_saved,
                    output_dir, inputs, hash_file, pipes, syncVars, quiet, progress >>

ConfigNext == CliBuild \/ Next

ConfigSpec == ConfigInit /\ [][ConfigNext]_vars

\* ------------------------------------------ one child, its pipes and readers

\* Everything but the child, its pipes and its readers.
pipeFrame == << entry, verbose, max_jobs, targets, ccache, env, pcMain, idx, pc,
               count, outcome, result, results, collects, ret, diskVars,
               west_args, output_dir, build_dir, syncVars, quiet, progress >>

\* The two captured streams.
Streams == { "stdout", "stderr" }

\* The build functions that capture the output of the child through pipes.
CapturingFunctions ==
    { "build_target_inner", "build_target_with_progress",
      "build_target_verbose_parallel" }

\* What a child writes, in the order of its writes: for each line the
\* stream and whether the line is valid UTF-8.
Scripts ==
    UNION { [1..n -> [stream : Streams, valid : BOOLEAN]] : n \in 0..MaxLines }

\* The child has been spawned with both streams piped and the two reader
\* threads have been spawned; the task is at the statement that follows:
\* child.wait(), the polling loop, or the join of the stdout reader.
PipeInit ==
    /\ InitOrchestrator({ << >> }, { 1 }, [i \in 1..Len(NamePool) |-> FairOutcomes])
    /\ entry = "sequential" /\ ~verbose /\ ccache
    /\ FreshWorkspace
    /\ quiet = TRUE
    /\ progress = None
    /\ \E f \in CapturingFunctions, sc \in Scripts :
         pipes = [fn |-> f, script |-> sc, child |-> "running",
                  buffer |-> [stdout |-> << >>, stderr |-> << >>],
                  read_end |-> [stdout |-> "open", stderr |-> "open"],
                  written |-> [stdout |-> << >>, stderr |-> << >>],
                  captured |-> [stdout |-> << >>, stderr |-> << >>],
                  task |-> IF f = "build_target_verbose_parallel"
                           THEN "join_stdout" ELSE "wait",
                  status |-> None]

\* The child writes its next line.  The write blocks while the pipe is
\* full.  When the read end is closed the write fails: the child is killed
\* by SIGPIPE or gets EPIPE, and either ends or goes on.
ChildWrite ==
    /\ pipes.child = "running"
    /\ pipes.script # << >>
    /\ LET line == Head(pipes.script)
           s == line.stream
       IN  IF pipes.read_end[s] = "open"
           THEN /\ Len(pipes.buffer[s]) < PipeCapacity
                /\ pipes' = [pipes EXCEPT !.script = Tail(@),
                                          !.buffer[s] = Append(@, line),
                                          !.written[s] = Append(@, line)]
           ELSE \/ pipes' = [pipes EXCEPT !.script = << >>, !.child = "exited"]
                \/ pipes' = [pipes EXCEPT !.script = Tail(@)]
    /\ UNCHANGED pipeFrame

\* The child has written everything and exits; its ends of the pipes close.
ChildExit ==
    /\ pipes.child = "running"
    /\ pipes.script = << >>
    /\ pipes' = [pipes EXCEPT !.child = "exited"]
    /\ UNCHANGED pipeFrame

\* A variant of the readers in which stderr is read only after stdout has
\* come to its end, as one thread reading the streams in turn would.
ReaderLineInTurn(s) ==
    /\ pipes.read_end[s] = "open"
    /\ s = "stderr" => pipes.read_end["stdout"] = "closed"
    /\ pipes.buffer[s] # << >>
    /\ IF Head(pipes.buffer[s]).valid
       THEN pipes' = [pipes EXCEPT !.buffer[s] = Tail(@),
                                   !.captured[s] = Append(@, Head(pipes.buffer[s]))]
       ELSE pipes' = [pipes EXCEPT !.buffer[s] = << >>, !.read_end[s] = "closed"]
    /\ UNCHANGED pipeFrame

\* A reader thread takes a line from its pipe:
\* reader.lines().map_while(Result::ok) goes on with a line that is valid
\* UTF-8 and ends with the first that is not; the thread then returns and
\* drops its end of the pipe.
ReaderLine(s) ==
    /\ pipes.read_end[s] = "open"
    /\ pipes.buffer[s] # << >>
    /\ IF Head(pipes.buffer[s]).valid
       THEN pipes' = [pipes EXCEPT !.buffer[s] = Tail(@),
                                   !.captured[s] = Append(@, Head(pipes.buffer[s]))]
       ELSE pipes' = [pipes EXCEPT !.buffer[s] = << >>, !.read_end[s] = "closed"]
    /\ UNCHANGED pipeFrame

\* A reader thread finds the end of its stream: the pipe is empty and the
\* child has closed its end.
ReaderEof(s) ==
    /\ pipes.read_end[s] = "open"
    /\ pipes.buffer[s] = << >>
    /\ pipes.child = "exited"
    /\ pipes' = [pipes EXCEPT !.read_end[s] = "closed"]
    /\ UNCHANGED pipeFrame

\* child.wait(), or the try_wait of the polling loop that finds the child
\* gone: the task has the exit status.  build_target_verbose_parallel is
\* done with it, the other two go on to join the readers.
TaskWait ==
    /\ pipes.task = "wait"
    /\ pipes.child = "exited"
    /\ pipes' = [pipes EXCEPT !.status = Some("status"),
                              !.task = IF pipes.fn = "build_target_verbose_parallel"
                                       THEN "done" ELSE "join_stdout"]
    /\ UNCHANGED pipeFrame

\* stdout_handle.join(), then stderr_handle.join(): each returns when its
\* reader thread has ended.  build_target_verbose_parallel waits for the
\* child after them.
TaskJoin(s) ==
    /\ pipes.task = IF s = "stdout" THEN "join_stdout" ELSE "join_stderr"
    /\ pipes.read_end[s] = "closed"
    /\ pipes' = [pipes EXCEPT !.task =
                    IF s = "stdout" THEN "join_stderr"
                    ELSE IF pipes.fn = "build_target_verbose_parallel"
                    THEN "wait" ELSE "done"]
    /\ UNCHANGED pipeFrame

Child == ChildWrite \/ ChildExit

Reader(s) == ReaderLine(s) \/ ReaderEof(s)

Task == TaskWait \/ \E s \in Streams : TaskJoin(s)

PipeNext == Child \/ (\E s \in Streams : Reader(s)) \/ Task

\* The child, each reader thread and the task are scheduled whenever they
\* can take a step.
PipeSpec ==
    /\ PipeInit
    /\ [][PipeNext]_vars
    /\ WF_vars(Child)
    /\ \A s \in Streams : WF_vars(Reader(s))
    /\ WF_vars(Task)

\* ------------------------------------------------- runs with the progress board

\* Everything but the board.
boardFrame == << entry, verbose, max_jobs, targets, ccache, env, pcMain, idx, pc,
                count, outcome, result, results, collects, ret, diskVars,
                west_args, output_dir, build_dir, pipes, syncVars, quiet >>

\* Runs of up to MaxBoardTargets targets of an orchestrator that is not
\* quiet.
BoardInit ==
    /\ InitOrchestrator(TargetLists(MaxBoardTargets), 0..MaxJobs,
                        [i \in 1..Len(NamePool) |-> CoreOutcomes])
    /\ FreshWorkspace
    /\ pipes = NoPipes
    /\ quiet = FALSE
    /\ progress = None

\* build_target_with_progress begins:
\* prog.update(idx, BuildState::Starting, "configuring").
ProgressStarting(i) ==
    /\ pc[i] = "building"
    /\ IsSome(progress)
    /\ Bar(i).prefix = Prefix("Pending")
    /\ progress' = Some(Update(progress[1], i, "Starting", "configuring"))
    /\ UNCHANGED boardFrame

\* A variant of the polling loop that also shows the progress strings left
\* in the channel when the build function has called finish.
ProgressRunningAfterFinish(i) ==
    /\ pc[i] \in {"building", "push"}
    /\ IsSome(progress)
    /\ Bar(i).prefix # Prefix("Pending")
    /\ ccache
    /\ \E o \in OutcomesFor(i) : o.spawn /\ o.threads
    /\ \E msg \in ProgressMessages :
         progress' = Some(Update(progress[1], i, "Running", msg))
    /\ UNCHANGED boardFrame

\* The polling loop takes a progress string from the channel while the
\* child runs: prog.update(idx, BuildState::Running, &msg).
ProgressRunning(i) ==
    /\ pc[i] = "building"
    /\ IsSome(progress)
    /\ Bar(i).prefix \in { Prefix("Starting"), Prefix("Running") }
    /\ ccache
    /\ \E o \in OutcomesFor(i) : o.spawn /\ o.threads
    /\ \E msg \in ProgressMessages :
         progress' = Some(Update(progress[1], i, "Running", msg))
    /\ UNCHANGED boardFrame

BoardNext ==
    \/ Next
    \/ \E i \in Threads : ProgressStarting(i)
    \/ \E i \in Threads : ProgressRunning(i)

BoardSpec == BoardInit /\ [][BoardNext]_vars

\* Runs of up to MaxBoardTargets targets of an orchestrator that is quiet
\* or not.
QuietInit ==
    /\ InitOrchestrator(TargetLists(MaxBoardTargets), 0..MaxJobs,
                        [i \in 1..Len(NamePool) |-> CoreOutcomes])
    /\ FreshWorkspace
    /\ pipes = NoPipes
    /\ quiet \in BOOLEAN
    /\ progress = None

QuietSpec == QuietInit /\ [][BoardNext]_vars

\* ------------------------------------------------ the calls of BuildProgress

\* A board for one target, as BuildProgress::new leaves it; no thread of
\* the orchestrator runs.
ApiInit ==
    /\ InitOrchestrator({ SubSeq(NamePool, 1, 1) }, { 1 },
                        [i \in 1..Len(NamePool) |-> FairOutcomes])
    /\ entry = "parallel" /\ ~verbose /\ ccache
    /\ FreshWorkspace
    /\ pipes = NoPipes
    /\ quiet = FALSE
    /\ progress = Some(BuildProgressNew(targets))

\* update(index, state, message), for an index with or without a bar.
ApiUpdate ==
    /\ \E index \in 1..(N + 1), state \in BuildStates,
          message \in { "", "configuring" } \cup ProgressMessages :
         progress' = Some(Update(progress[1], index, state, message))
    /\ UNCHANGED boardFrame

\* finish(index, success, artifact, duration), for an index with or without
\* a bar.
ApiFinish ==
    /\ \E index \in 1..(N + 1), success \in BOOLEAN,
          artifact \in { None, Some(FileName(DestPath("a"))) },
          duration \in { None, Some(Elapsed) } :
         progress' = Some(Finish(progress[1], index, success, artifact, duration))
    /\ UNCHANGED boardFrame

\* print_results(), called once.
ApiPrintResults ==
    /\ ~progress[1].printed
    /\ progress' = Some(PrintResults(progress[1]))
    /\ UNCHANGED boardFrame

ApiNext == ApiUpdate \/ ApiFinish \/ ApiPrintResults

ApiSpec == ApiInit /\ [][ApiNext]_vars

\* ------------------------------------------------ the calls of expand_targets

RightShield == << "r" >>

\* The lists of up to two entries of a pool, in every order.
ListsOf(pool) == UNION { [1..n -> pool] : n \in 0..2 }

\* The build.yaml files with top-level board and shield lists, with or
\* without one include entry.
ExpandConfigs ==
    { [board |-> b, shield |-> sh, include |-> inc] :
        b \in ListsOf({ PlainBoard, QualifiedBoard }),
        sh \in ListsOf({ LeftShield, RightShield }),
        inc \in { << >>, << Include(UnderscoreBoard, None) >> } }

\* A build.yaml has been loaded; no run has been started.
ExpandInit ==
    /\ InitOrchestrator({ << >> }, { 1 }, [i \in 1..Len(NamePool) |-> FairOutcomes])
    /\ entry = "parallel" /\ ~verbose /\ ccache
    /\ pipes = NoPipes
    /\ quiet = TRUE
    /\ progress = None
    /\ pristine = TRUE
    /\ inputs \in { [PlainInputs EXCEPT !.build_yaml = Some(c)] : c \in ExpandConfigs }
    /\ hash_file = AbsentFile

\* config.expand_targets()
CallExpandTargets ==
    /\ IsNone(ret)
    /\ ret' = Some(ExpandTargets(inputs.build_yaml[1]))
    /\ UNCHANGED << entry, verbose, max_jobs, targets, ccache, env, pcMain, idx, pc,
                    count, outcome, result, results, collects, diskVars,
                    west_args, output_dir, build_dir, pipes, syncVars, quiet, progress >>

ExpandSpec == ExpandInit /\ [][CallExpandTargets]_vars

\* ------------------------------------------------------ the progress channel

\* A line of the child's stdout is a sequence of characters.
LineOne  == << "[", "1", "/", "2", "]", " ", "C" >>
LineTwo  == << " ", "[", "0", "2", "/", "2", "]" >>
LineWarn == << "w", ":" >>
LineBad  == << "[", "x", "/", "2", "]" >>

\* What the children write to stdout.
ProgressScripts ==
    { << >>, << LineWarn >>, << LineOne, LineTwo >>, << LineTwo, LineBad, LineOne >> }

Digits == << "0", "1", "2", "3", "4", "5", "6", "7", "8", "9" >>

\* The first position of a character in a text, 0 when it is not there.
Find(text, c) ==
    IF \E k \in 1..Len(text) : text[k] = c
    THEN CHOOSE k \in 1..Len(text) : text[k] = c /\ \A j \in 1..(k - 1) : text[j] # c
    ELSE 0

\* str::trim
RECURSIVE Trim(_)
Trim(text) ==
    IF text = << >> THEN text
    ELSE IF Head(text) \in { " ", "\n" } THEN Trim(Tail(text))
    ELSE IF text[Len(text)] \in { " ", "\n" } THEN Trim(SubSeq(text, 1, Len(text) - 1))
    ELSE text

\* The number a sequence of digits stands for.
RECURSIVE DigitsValue(_)
DigitsValue(text) ==
    IF text = << >> THEN 0
    ELSE 10 * DigitsValue(SubSeq(text, 1, Len(text) - 1))
         + (Find(Digits, text[Len(text)]) - 1)

\* str::parse::<usize>: digits, after a "+" or not; None for anything else.
ParseUsize(text) ==
    LET digits == IF text # << >> /\ Head(text) = "+" THEN Tail(text) ELSE text
    IN  IF digits # << >> /\ \A k \in 1..Len(digits) : Find(Digits, digits[k]) # 0
        THEN Some(DigitsValue(digits))
        ELSE None

\* parse_build_progress: current and total of a line "[current/total] ..",
\* None for any other line.
ParseBuildProgress(raw) ==
    LET line == Trim(raw)
        bracket_end == Find(line, "]")
    IN  IF line = << >> \/ Head(line) # "[" \/ bracket_end = 0 THEN None
        ELSE LET progress_text == SubSeq(line, 2, bracket_end - 1)
                 slash_pos == Find(progress_text, "/")
             IN  IF slash_pos = 0 THEN None
                 ELSE LET current == ParseUsize(SubSeq(progress_text, 1, slash_pos - 1))
                          total == ParseUsize(SubSeq(progress_text, slash_pos + 1,
                                                     Len(progress_text)))
                      IN  IF IsNone(current) \/ IsNone(total) THEN None
                          ELSE Some([current |-> current[1], total |-> total[1]])

\* format!("[{}/{}]", current, total)
FormatProgress(p) == "[" \o ToString(p.current) \o "/" \o ToString(p.total) \o "]"

\* The strings the stdout reader sends for the lines it reads, in their
\* order.
RECURSIVE ProgressStrings(_)
ProgressStrings(lines) ==
    IF lines = << >> THEN << >>
    ELSE (IF IsSome(ParseBuildProgress(Head(lines)))
          THEN << FormatProgress(ParseBuildProgress(Head(lines))[1]) >>
          ELSE << >>) \o ProgressStrings(Tail(lines))

\* Everything but the board and the channels.
channelFrame == << entry, verbose, max_jobs, targets, ccache, env, pcMain, idx, pc,
                  count, outcome, result, results, collects, ret, diskVars,
                  west_args, output_dir, build_dir, pipes, mutex, workspace, quiet >>

\* Runs of one target or of two, with one job or two, each child spawned
\* with its readers and writing one of the scripts to stdout.
ChannelInit ==
    /\ InitFields({ SubSeq(NamePool, 1, 1), SubSeq(NamePool, 1, 2) }, { 1, 2 },
                  [i \in 1..Len(NamePool) |-> { o \in FairOutcomes : o.spawn }])
    /\ ccache
    /\ FreshWorkspace
    /\ pipes = NoPipes
    /\ quiet = FALSE
    /\ progress = None
    /\ mutex = Unlocked
    /\ workspace = NoWorkspace
    /\ channel \in [1..Len(targets) ->
                       { [script |-> sc, lines |-> sc, queue |-> << >>, shown |-> << >>] :
                           sc \in ProgressScripts }]

\* The stdout reader of target i reads a line and, when it is a progress
\* line, sends its string: progress_tx.send(format!("[{}/{}]", ..)).
ReaderSends(i) ==
    /\ pc[i] = "building"
    /\ IsSome(progress)
    /\ Bar(i).prefix # Prefix("Pending")
    /\ channel[i].lines # << >>
    /\ channel' = [channel EXCEPT
                     ![i].lines = Tail(@),
                     ![i].queue = @ \o ProgressStrings(<< Head(channel[i].lines) >>)]
    /\ UNCHANGED << channelFrame, progress >>

\* A variant of the polling loop that takes the newest string of the
\* channel first.
ProgressFromChannelNewestFirst(i) ==
    /\ pc[i] = "building"
    /\ IsSome(progress)
    /\ Bar(i).prefix \in { Prefix("Starting"), Prefix("Running") }
    /\ channel[i].queue # << >>
    /\ LET q == channel[i].queue
           msg == q[Len(q)]
       IN  /\ progress' = Some(Update(progress[1], i, "Running", msg))
           /\ channel' = [channel EXCEPT ![i].queue = SubSeq(q, 1, Len(q) - 1),
                                         ![i].shown = Append(@, msg)]
    /\ UNCHANGED channelFrame

\* The polling loop of target i: progress_rx.try_recv() gives the oldest
\* string of the channel, which is shown with
\* prog.update(idx, BuildState::Running, &msg).
ProgressFromChannel(i) ==
    /\ pc[i] = "building"
    /\ IsSome(progress)
    /\ Bar(i).prefix \in { Prefix("Starting"), Prefix("Running") }
    /\ channel[i].queue # << >>
    /\ LET msg == Head(channel[i].queue)
       IN  /\ progress' = Some(Update(progress[1], i, "Running", msg))
           /\ channel' = [channel EXCEPT ![i].queue = Tail(@),
                                         ![i].shown = Append(@, msg)]
    /\ UNCHANGED channelFrame

ChannelNext ==
    \/ Next
    \/ \E i \in Threads : ProgressStarting(i)
    \/ \E i \in Threads : ReaderSends(i)
    \/ \E i \in Threads : ProgressFromChannel(i)

ChannelSpec == ChannelInit /\ [][ChannelNext]_vars

\* ------------------------------------------------------------------ mutexes

\* The task threads of a parallel run with the two mutexes taken and
\* released in steps of their own: one or two targets, one or two permits,
\* with and without the board.
LockInit ==
    /\ InitFields({ SubSeq(NamePool, 1, 1), SubSeq(NamePool, 1, 2) }, { 1, 2 },
                  [i \in 1..Len(NamePool) |-> CoreOutcomes])
    /\ FreshWorkspace
    /\ pipes = NoPipes
    /\ quiet \in BOOLEAN
    /\ progress = None
    /\ channel = << >>
    /\ mutex = Unlocked
    /\ workspace = NoWorkspace

\* build_target_with_progress up to its call of finish: the child has been
\* spawned, read and waited for and the artifact collected; the function
\* panics, or it goes on to finish when there is a board.
BuildUpToFinish(i) ==
    /\ pc[i] = "building"
    /\ \E o \in OutcomesFor(i) :
         LET r == ParallelBuild(verbose, targets[i], ccache, o)
         IN  /\ BoardAllows(i, o)
             /\ outcome' = [outcome EXCEPT ![i] = o]
             /\ output_dir' = IF r.collects = 1
                              THEN CollectEffect(targets[i], o.fs, output_dir)
                              ELSE output_dir
             /\ build_dir' \in ToolchainLeaves(targets[i], o, r.collects = 1)
             /\ collects' = [collects EXCEPT ![i] = @ + r.collects]
             /\ IF r.panic
                THEN /\ pc' = [pc EXCEPT ![i] = "unwind"]
                     /\ UNCHANGED result
                ELSE /\ pc' = [pc EXCEPT ![i] = IF IsSome(progress) THEN "finish"
                                                                     ELSE "push"]
                     /\ result' = [result EXCEPT ![i] = Some(r.result)]
    /\ west_args' = [west_args EXCEPT ![i] = WestCommand(targets[i], ccache, pristine)]
    /\ UNCHANGED << diskVars, pipes, syncVars, quiet, progress,
                    entry, verbose, max_jobs, targets, ccache, env, pcMain, idx,
                    count, results, ret >>

\* finish: self.results.lock(), which blocks while another thread holds the
\* mutex.
FinishLocks(i) ==
    /\ pc[i] = "finish"
    /\ mutex["board"] = 0
    /\ mutex' = [mutex EXCEPT !["board"] = i]
    /\ pc' = [pc EXCEPT ![i] = "recording"]
    /\ UNCHANGED << diskVars, west_args, output_dir, build_dir, pipes, channel, workspace,
                    quiet, progress, entry, verbose, max_jobs, targets, ccache, env,
                    pcMain, idx, count, outcome, result, results, collects, ret >>

\* finish: results[index] = (success, msg) and the end of the if-let block,
\* where the guard drops; the prefix and the message of the bar are set
\* after that, and the build function returns.
FinishRecords(i) ==
    /\ pc[i] = "recording"
    /\ progress' = BoardAfterBuild(i, outcome[i], FALSE)
    /\ mutex' = [mutex EXCEPT !["board"] = 0]
    /\ pc' = [pc EXCEPT ![i] = "push"]
    /\ UNCHANGED << diskVars, west_args, output_dir, build_dir, pipes, channel, workspace,
                    quiet, entry, verbose, max_jobs, targets, ccache, env,
                    pcMain, idx, count, outcome, result, results, collects, ret >>

\* let mut results = results.lock().unwrap(): the task thread takes the
\* mutex of the result collection once the build function has returned.
LockResults(i) ==
    /\ pc[i] = "push"
    /\ mutex["results"] = 0
    /\ mutex' = [mutex EXCEPT !["results"] = i]
    /\ pc' = [pc EXCEPT ![i] = "locked"]
    /\ UNCHANGED << diskVars, west_args, output_dir, build_dir, pipes, channel, workspace,
                    quiet, progress, entry, verbose, max_jobs, targets, ccache, env,
                    pcMain, idx, count, outcome, result, results, collects, ret >>

\* A variant of the closure in which the guard outlives the permit: the
\* result is pushed and the mutex stays held while the permit drops.
PushKeepsGuard(i) ==
    /\ pc[i] = "locked"
    /\ results' = Append(results, result[i][1])
    /\ result' = [result EXCEPT ![i] = None]
    /\ pc' = [pc EXCEPT ![i] = "drop"]
    /\ UNCHANGED << diskVars, west_args, output_dir, build_dir, pipes, syncVars, quiet,
                    progress, entry, verbose, max_jobs, targets, ccache, env,
                    pcMain, idx, count, outcome, collects, ret >>

\* results.push(result) and the end of the closure: the guard, declared
\* last, drops first, before the permit.
PushAndUnlock(i) ==
    /\ pc[i] = "locked"
    /\ results' = Append(results, result[i][1])
    /\ result' = [result EXCEPT ![i] = None]
    /\ mutex' = [mutex EXCEPT !["results"] = 0]
    /\ pc' = [pc EXCEPT ![i] = "drop"]
    /\ UNCHANGED << diskVars, west_args, output_dir, build_dir, pipes, channel, workspace,
                    quiet, progress, entry, verbose, max_jobs, targets, ccache, env,
                    pcMain, idx, count, outcome, collects, ret >>

LockWorker(i) ==
    \/ Acquire(i)
    \/ SpuriousWakeup(i)
    \/ ProgressStarting(i)
    \/ BuildUpToFinish(i)
    \/ FinishLocks(i)
    \/ FinishRecords(i)
    \/ LockResults(i)
    \/ PushAndUnlock(i)
    \/ DropPermit(i)

LockNext ==
    \/ Main
    \/ \E i \in Threads : LockWorker(i)

LockSpec == LockInit /\ [][LockNext]_vars

\* ------------------------------------------------------- paths to finish

\* Runs of one or two targets with the board in which the environment can
\* take a build down every path of the build function.
FinishInit ==
    /\ InitFields({ SubSeq(NamePool, 1, 1), SubSeq(NamePool, 1, 2) }, { 1, 2 },
                  [i \in 1..Len(NamePool) |-> Outcomes])
    /\ FreshWorkspace
    /\ pipes = NoPipes
    /\ quiet = FALSE
    /\ progress = None
    /\ channel = << >>
    /\ mutex = Unlocked
    /\ workspace = NoWorkspace

FinishSpec == FinishInit /\ [][BoardNext]_vars

\* ------------------------------------------------ the workspace of a project

\* Everything but the workspace and the project's files.
workspaceFrame == << entry, verbose, max_jobs, targets, ccache, env, pcMain, idx, pc,
                     count, outcome, result, results, collects, ret, pristine,
                     hash_file, op, last_saved, west_args, output_dir, build_dir,
                     pipes, channel, mutex, quiet, progress >>

\* The contents west.yml may have; None when the file cannot be read.
WestYmlChoices == { Some(<< "x" >>), Some(<< "y" >>), None }

\* What the environment does to a call of get_or_create: whether
\* Runtime::detect finds a runtime, whether the container script exits with
\* 0, and whether the hash file can be written.
WorkspaceOutcomes == [detect : BOOLEAN, run : BOOLEAN, write : BOOLEAN]

\* A workspace made before the hash file was introduced: .west is there,
\* the hash file is not.
OldWorkspace == [NoWorkspace EXCEPT !.west = TRUE, !.synced = Some(<< "x" >>)]

\* west_yml_changed: Ok(false) without a hash file; otherwise the stored
\* text, trimmed, is compared with the hash of west.yml.
WestYmlChanged(ws, west_yml) ==
    IF IsNone(ws.hash_file) THEN Ok(FALSE)
    ELSE LET current_hash == HashFile(west_yml)
         IN  IF ~current_hash.ok THEN current_hash
             ELSE Ok(Trim(ws.hash_file[1]) # current_hash.value)

\* save_west_yml_hash: the hash of west.yml is written to the hash file.
SaveWestYmlHash(ws, west_yml, e) ==
    LET current_hash == HashFile(west_yml)
    IN  IF ~current_hash.ok \/ ~e.write
        THEN [ws |-> ws, ok |-> FALSE]
        ELSE [ws |-> [ws EXCEPT !.hash_file = Some(current_hash.value)], ok |-> TRUE]

\* A variant of the branch for a changed west.yml that saves the hash before
\* it runs the update.
UpdateChangedSavesFirst(ws, west_yml, e) ==
    LET saved == SaveWestYmlHash(ws, west_yml, e)
    IN  IF ~saved.ok
        THEN [ws |-> ws, update |-> "none", ok |-> FALSE]
        ELSE IF ~e.detect
        THEN [ws |-> saved.ws, update |-> "none", ok |-> FALSE]
        ELSE IF ~e.run
        THEN [ws |-> [saved.ws EXCEPT !.synced = None], update |-> "failed", ok |-> FALSE]
        ELSE [ws |-> [saved.ws EXCEPT !.synced = west_yml], update |-> "ok", ok |-> TRUE]

\* get_or_create on an existing workspace whose west.yml changed:
\* Runtime::detect()?, update_workspace(..)?, save_west_yml_hash(..)?.  An
\* update that fails leaves the modules in a state that matches no west.yml.
UpdateChanged(ws, west_yml, e) ==
    IF ~e.detect
    THEN [ws |-> ws, update |-> "none", ok |-> FALSE]
    ELSE IF ~e.run
    THEN [ws |-> [ws EXCEPT !.synced = None], update |-> "failed", ok |-> FALSE]
    ELSE LET saved == SaveWestYmlHash([ws EXCEPT !.synced = west_yml], west_yml, e)
         IN  [ws |-> saved.ws, update |-> "ok", ok |-> saved.ok]

\* initialize_workspace: Runtime::detect()?, the init script, whose failure
\* removes the workspace directory, then save_west_yml_hash(..)?.
InitializeWorkspace(ws, west_yml, e) ==
    IF ~e.detect
    THEN [ws |-> ws, ok |-> FALSE]
    ELSE IF ~e.run
    THEN [ws |-> [ws EXCEPT !.west = FALSE, !.hash_file = None, !.synced = None],
          ok |-> FALSE]
    ELSE SaveWestYmlHash([ws EXCEPT !.west = TRUE, !.synced = west_yml], west_yml, e)

\* The workspace after get_or_create and what the call did: the branch it
\* took ("cached", "changed", "init", or "error" when west_yml_changed
\* failed), what became of the update, and whether it returned Ok.
GetOrCreateResult(ws, west_yml, e) ==
    IF ws.west
    THEN LET changed == WestYmlChanged(ws, west_yml)
         IN  IF ~changed.ok
             THEN [ws |-> ws, branch |-> "error", update |-> "none", ok |-> FALSE]
             ELSE IF changed.value
             THEN LET u == UpdateChanged(ws, west_yml, e)
                  IN  [ws |-> u.ws, branch |-> "changed", update |-> u.update, ok |-> u.ok]
             ELSE [ws |-> ws, branch |-> "cached", update |-> "none", ok |-> TRUE]
    ELSE LET i == InitializeWorkspace(ws, west_yml, e)
         IN  [ws |-> i.ws, branch |-> "init", update |-> "none", ok |-> i.ok]

\* No workspace yet, or one from before the hash file; the project's
\* west.yml has the contents of a plain project.
WorkspaceInit ==
    /\ InitFields({ SubSeq(NamePool, 1, 1) }, { 1 },
                  [i \in 1..Len(NamePool) |-> FairOutcomes])
    /\ entry = "sequential" /\ ~verbose /\ ccache
    /\ FreshWorkspace
    /\ pipes = NoPipes
    /\ quiet = FALSE
    /\ progress = None
    /\ channel = << >>
    /\ mutex = Unlocked
    /\ workspace \in { NoWorkspace, OldWorkspace }

\* WorkspaceManager::get_or_create is called; the call is recorded with the
\* west.yml it found and the runtime it was given.
GetOrCreate ==
    /\ Len(workspace.calls) < MaxCalls
    /\ \E e \in WorkspaceOutcomes :
         LET r == GetOrCreateResult(workspace, inputs.west_yml, e)
         IN  workspace' = [r.ws EXCEPT !.calls =
                             Append(@, [west_yml |-> inputs.west_yml, detect |-> e.detect,
                                        branch |-> r.branch, update |-> r.update,
                                        ok |-> r.ok])]
    /\ UNCHANGED << workspaceFrame, inputs >>

\* The user edits west.yml between two calls.
EditWestYml ==
    /\ \E w \in WestYmlChoices \ { inputs.west_yml } :
         inputs' = [inputs EXCEPT !.west_yml = w]
    /\ UNCHANGED << workspaceFrame, workspace >>

WorkspaceNext ==
    \/ GetOrCreate
    \/ EditWestYml

WorkspaceSpec == WorkspaceInit /\ [][WorkspaceNext]_vars

\* ---------------------------------------------------------------------- C1

\* C1: in a parallel run with max_jobs >= 1, at every moment at most max_jobs
\* task threads hold a permit, the semaphore's counter has not gone below
\* zero, and counter + permit holders = max_jobs.
C1_BoundedAdmission ==
    (entry = "parallel" /\ max_jobs >= 1 /\ pcMain # "start") =>
        /\ Cardinality(Holders) <= max_jobs
        /\ count >= 0
        /\ count + Cardinality(Holders) = max_jobs

\* More targets than permits, every permit taken and a thread blocked.
C1_Witness ==
    /\ entry = "parallel"
    /\ max_jobs >= 1
    /\ N > max_jobs
    /\ Cardinality(Holders) = max_jobs
    /\ count = 0
    /\ Waiters # {}

\* ---------------------------------------------------------------------- C3

\* C3: under fair scheduling, with max_jobs >= 1 and every build function
\* returning, build_parallel eventually returns, every task thread having
\* been admitted by acquire and having run to its end: no thread stays blocked
\* in acquire.
C3_EventualAdmission ==
    (entry = "parallel" /\ max_jobs >= 1)
        ~> (pcMain = "done" /\ \A i \in Threads : pc[i] = "finished")

\* Two threads are blocked while a third holds the only permit.
C3_Witness ==
    /\ entry = "parallel"
    /\ max_jobs = 1
    /\ Cardinality(Waiters) >= 2
    /\ Cardinality(Holders) = 1

\* ------------------------------------------------------------ shared notions

Range(f) == { f[x] : x \in DOMAIN f }

\* The bag of the elements of a sequence.
BagOfSeq(sq) ==
    [x \in Range(sq) |-> Cardinality({ j \in DOMAIN sq : sq[j] = x })]

\* The run has returned Ok.
ReturnedOk == pcMain = "done" /\ IsSome(ret) /\ ret[1].ok
\* The list it returned.
Returned == ret[1].value

\* The results the build functions have produced so far, with the index of
\* their target: in a sequential run the i-th result is the i-th target's, in
\* a parallel run a thread holds its result until it has pushed it.
Produced ==
    IF entry = "sequential"
    THEN { << i, results[i] >> : i \in 1..Len(results) }
    ELSE { << i, result[i][1] >> : i \in { t \in Threads : pc[t] = "push" } }

\* The child of a target was spawned, waited for, and exited with this code.
Exited(o) == ccache /\ o.spawn /\ o.wait /\ o.code >= 0
ExitedZero(o) == Exited(o) /\ o.code = 0
ExitedNonZero(o) == Exited(o) /\ o.code # 0
\* The resolver finds a candidate and copies it.
ResolverSucceeds(fs) == fs.cands # {} /\ fs.io = "ok"
\* The environment lets the target's build succeed.
OutcomeSucceeds(o) == ExitedZero(o) /\ ResolverSucceeds(o.fs)

\* What the child wrote, as a capturing build function keeps it: the lines
\* of stdout separated by newlines, then the lines of stderr each ended by a
\* newline, a newline between the two when neither is empty.
Captured(st) ==
    LET so == Join(st.out, << "\n" >>)
        se == Join([k \in DOMAIN st.err |-> st.err[k] \o << "\n" >>], << >>)
    IN  IF se = << >> THEN so
        ELSE IF so = << >> THEN se
        ELSE so \o << "\n" >> \o se

\* ---------------------------------------------------------------------- C2

\* C2: when a parallel run returns, every task thread has run to its end and
\* the returned list holds exactly one result per input target, each the
\* result of that target's own build, whichever of the targets failed.
C2_FailureIsolation ==
    (entry = "parallel" /\ pcMain = "done") =>
        /\ ReturnedOk
        /\ \A i \in Threads : pc[i] = "finished"
        /\ Len(Returned) = N
        /\ BagOfSeq([j \in DOMAIN Returned |-> Returned[j].target_name])
             = BagOfSeq(targets)
        /\ BagOfSeq(Returned)
             = BagOfSeq([i \in Threads |->
                   ParallelBuild(verbose, targets[i], ccache, outcome[i]).result])

\* A parallel run of two targets has returned, one failed by its child's
\* exit code and the other built.
C2_Witness ==
    /\ entry = "parallel"
    /\ ReturnedOk
    /\ N = 2
    /\ \E i, j \in Threads :
         /\ ExitedNonZero(outcome[i])
         /\ OutcomeSucceeds(outcome[j])
         /\ \E k \in DOMAIN Returned : Returned[k].success

\* ---------------------------------------------------------------------- C4

\* What build_sequential returns for the same targets and outcomes.
SequentialResults ==
    [i \in Threads |->
        SequentialBuild(verbose, targets[i], ccache, outcome[i]).result]

NameAndFlag(rs) == [j \in DOMAIN rs |-> << rs[j].target_name, rs[j].success >>]

\* C4: for the same targets and the same per-target outcomes, build_parallel
\* returns the target names and success flags that build_sequential returns,
\* in some order: a sequential run returns SequentialResults, and a parallel
\* run returns a list with the same bag of (name, flag) pairs.
C4_ParallelMatchesSequential ==
    /\ (entry = "sequential" /\ pcMain = "done") =>
          ReturnedOk /\ Returned = SequentialResults
    /\ (entry = "parallel" /\ pcMain = "done") =>
          /\ ReturnedOk
          /\ BagOfSeq(NameAndFlag(Returned))
               = BagOfSeq(NameAndFlag(SequentialResults))

\* A parallel run has returned its results in another order than the
\* targets', one target failed for a missing artifact.
C4_Witness ==
    /\ entry = "parallel"
    /\ ReturnedOk
    /\ N = 2
    /\ Returned[1].target_name = targets[2]
    /\ Returned[1].target_name # targets[1]
    /\ \E i \in Threads : ExitedZero(outcome[i]) /\ outcome[i].fs.cands = {}
    /\ \E i \in Threads : OutcomeSucceeds(outcome[i])

\* ---------------------------------------------------------------------- C5

\* The result of target b in the returned list.
ResultOf(name) == CHOOSE r \in Range(Returned) : r.target_name = name

ScenarioAggregate ==
    /\ Cardinality({ j \in DOMAIN Returned : Returned[j].success }) = 2
    /\ Cardinality({ j \in DOMAIN Returned : ~Returned[j].success }) = 1
    /\ ~ResultOf("b").success
    /\ ResultOf("a").artifact_path = Some(DestPath("a"))
    /\ ResultOf("c").artifact_path = Some(DestPath("c"))

ExitCodeDescription(code) == << "Build failed with exit code: ", DebugCode(code) >>

\* C6 as stated: in every mode a non-zero exit gives a failed result whose
\* error_output is the captured stdout followed by the captured stderr.
C6_Original ==
    \A p \in Produced :
        LET o == outcome[p[1]]
            r == p[2]
        IN  ExitedNonZero(o) =>
              /\ ~r.success
              /\ r.error = Some(ExitCodeDescription(o.code))
              /\ r.error_output = Some(Captured(o.streams))

\* C6, amended: in every mode a non-zero exit gives a failed result whose
\* error is the exit-code description.  In the two modes that capture the
\* child's output (build_target_inner, build_target_with_progress)
\* error_output is the captured stdout followed by the captured stderr, and
\* absent when nothing was captured; in the two verbose modes, which stream
\* the output and keep none, error_output is absent.
C6_NonZeroExit ==
    \A p \in Produced :
        LET o == outcome[p[1]]
            r == p[2]
        IN  ExitedNonZero(o) =>
              /\ ~r.success
              /\ r.error = Some(ExitCodeDescription(o.code))
              /\ r.artifact_path = None
              /\ r.error_output =
                    IF verbose \/ Captured(o.streams) = << >>
                    THEN None
                    ELSE Some(Captured(o.streams))

\* Every mode has produced a failed result for a child that exited with a
\* non-zero code after writing to both streams.
C6_WitnessMode(e, v) ==
    /\ entry = e
    /\ verbose = v
    /\ \E p \in Produced :
         /\ ExitedNonZero(outcome[p[1]])
         /\ outcome[p[1]].streams.out # << >>
         /\ outcome[p[1]].streams.err # << >>
         /\ IsSome(p[2].error_output) = ~v

C6_Witness == C6_WitnessMode("parallel", FALSE)

\* ---------------------------------------------------------------------- C7

\* The error of a result whose artifact was at neither candidate path.
NotFoundError(name) ==
    << "Failed to collect artifact: ",
       "Build artifact not found. Searched:\n  ",
       "workspace/", "build/", name, "/zephyr/zmk.uf2",
       "\n  ",
       "workspace/", "build/", name, "/zmk/zephyr/zmk.uf2" >>

WellFormed(r) ==
    /\ r.success => /\ IsSome(r.artifact_path)
                    /\ IsNone(r.error)
                    /\ IsNone(r.error_output)
    /\ ~r.success => /\ IsSome(r.error)
                     /\ IsNone(r.artifact_path)
    /\ IsSome(r.error_output) => ~r.success

\* C8: every result that build_sequential or build_parallel returns has an
\* artifact path and neither error nor error_output when it succeeded, an
\* error and no artifact path when it failed, and an error_output only when
\* it failed.
C8_ResultShape ==
    pcMain = "done" =>
        /\ ReturnedOk
        /\ \A j \in DOMAIN Returned : WellFormed(Returned[j])

\* A returned list with a success, a failure with error_output and a failure
\* without.
C8_Witness ==
    /\ ReturnedOk
    /\ \E j, k \in DOMAIN Returned :
         /\ Returned[j].success
         /\ ~Returned[k].success
         /\ IsSome(Returned[k].error_output)

\* ---------------------------------------------------------------------- C9

\* The build function called for the target panics.
BuildPanics(o) ==
    /\ ccache /\ o.spawn /\ ~o.threads
    /\ entry = "parallel" \/ ~verbose

\* The environment makes the target's build fail.
OutcomeFails(o) == ~OutcomeSucceeds(o)

\* C9: build failures never fail the run.  The caller's thread panics only
\* when a build function has panicked; otherwise the call returns Ok with a
\* result per target, failed for exactly the targets whose build failed.
C9_FailuresAreResults ==
    /\ pcMain = "panicked" => \E i \in Threads : BuildPanics(outcome[i])
    /\ pcMain = "done" =>
         /\ ReturnedOk
         /\ Returned = results
         /\ Len(Returned) = N
         /\ \A nm \in Range(targets) :
              Cardinality({ j \in DOMAIN Returned :
                             Returned[j].target_name = nm /\ ~Returned[j].success })
              = Cardinality({ i \in Threads :
                             targets[i] = nm /\ OutcomeFails(outcome[i]) })

\* A run has returned Ok although every one of its two targets failed, one
\* by a spawn failure.
C9_Witness ==
    /\ ReturnedOk
    /\ N = 2
    /\ \A i \in Threads : OutcomeFails(outcome[i])
    /\ \E i \in Threads : ccache /\ ~outcome[i].spawn /\ outcome[i] # NoOutcome
    /\ \A j \in DOMAIN Returned : ~Returned[j].success

\* --------------------------------------------------------------------- C10

\* A task thread's build function has panicked.
WorkerPanicked == \E i \in Threads : pc[i] \in {"unwind", "panicked"}

Ended == { i \in Threads : pc[i] \in {"finished", "panicked"} }

\* One fewer thread is blocked when some thread was, none otherwise.
OneWaiterWoken ==
    Cardinality(Waiters') =
        IF Waiters = {} THEN 0 ELSE Cardinality(Waiters) - 1

\* C11: a task thread ends only by dropping its permit, whether its build
\* succeeded, failed or panicked; the drop raises the count by exactly one
\* and wakes exactly one blocked thread when there is one; once every task
\* thread of a run has ended the count is max_jobs again.
C11_PermitReleased ==
    /\ [][\A i \in Threads :
            (i \notin Ended /\ i \in Ended') =>
               /\ pc[i] \in {"drop", "unwind"}
               /\ count' = count + 1
               /\ OneWaiterWoken]_vars
    /\ []((entry = "parallel" /\ pcMain \in {"join", "done", "panicked"}
                                /\ Ended = Threads)
            => count = max_jobs)

\* Three tasks have shared fewer permits than there are tasks, one of the
\* builds failed and one panicked, and every permit is back.
C11_Witness ==
    /\ entry = "parallel"
    /\ pcMain = "panicked"
    /\ Ended = Threads
    /\ N > max_jobs
    /\ max_jobs >= 1
    /\ \E i \in Threads : pc[i] = "panicked"
    /\ \E k \in 1..Len(results) : ~results[k].success
    /\ count = max_jobs

\* ------------------------------------------------------------------------ C12

\* Task threads are blocked in acquire, no permit is left and none is held:
\* no drop can follow, the blocked threads stay blocked for ever.
BlockedForever == Waiters # {} /\ count = 0 /\ Holders = {}

\* C12: a limit of zero being rejected when the semaphore is built, no call
\* of build_parallel, max_jobs = 0 included, leaves task threads blocked for
\* ever in acquire.
C12_ZeroLimitRejected == ~BlockedForever

\* ------------------------------------------------------------------------ C13

\* The west arguments hold the clean flag.
HasCleanFlag(args) == \E k \in 1..Len(args) : args[k] = << "-p" >>

\* The build of target i is dispatched in this step.
Dispatched(i) == IsNone(west_args[i]) /\ IsSome(west_args'[i])

\* The workspace holds a snapshot that can be read.
SnapshotStored == Load(hash_file).ok /\ IsSome(Load(hash_file).value)

\* C13: the build mode comes from the hash tracker: a build dispatched while
\* the stored snapshot equals the hashes of the current inputs gets no -p,
\* one dispatched after an input of the snapshot was changed gets -p.
C13_ModeFromTracker ==
    [][\A i \in Threads :
         Dispatched(i) =>
            /\ IsIncrementalSafe(hash_file, CurrentHashes(inputs))
                  => ~HasCleanFlag(west_args'[i][1])
            /\ (SnapshotStored /\ ~IsIncrementalSafe(hash_file, CurrentHashes(inputs)))
                  => HasCleanFlag(west_args'[i][1])]_vars

\* ------------------------------------------------------------------------ C14

\* The build of target i was dispatched with -p and has succeeded.
PristineSuccess(i) ==
    /\ IsSome(west_args[i]) /\ HasCleanFlag(west_args[i][1])
    /\ outcome[i].threads /\ OutcomeSucceeds(outcome[i])

\* C14: once a build dispatched in pristine mode has succeeded, the
\* workspace holds a snapshot of the current inputs: is_incremental_safe on
\* the unchanged inputs is true.
C14_SnapshotAfterPristine ==
    \A i \in Threads :
        PristineSuccess(i) => IsIncrementalSafe(hash_file, CurrentHashes(inputs))

\* ------------------------------------------------------------------------ C15

\* The build function of target i returns in this step.
BuildReturns(i) == outcome[i] = NoOutcome /\ outcome'[i] # NoOutcome

\* C15: the stored snapshot changes only in a step in which a build
\* dispatched in pristine mode succeeds: no failed build and no incremental
\* build changes it.
C15_SnapshotOnlyAfterPristine ==
    [][hash_file' # hash_file =>
          \E i \in Threads :
             /\ BuildReturns(i)
             /\ IsSome(west_args'[i]) /\ HasCleanFlag(west_args'[i][1])
             /\ outcome'[i].threads /\ OutcomeSucceeds(outcome'[i])]_vars

\* A run in incremental mode has ended with one build failed and one
\* succeeded, on a workspace that holds a snapshot.
C15_Witness ==
    /\ pcMain = "done"
    /\ ~pristine
    /\ SnapshotStored
    /\ \E i, j \in Threads :
          /\ IsSome(west_args[i]) /\ ~OutcomeSucceeds(outcome[i])
          /\ IsSome(west_args[j]) /\ OutcomeSucceeds(outcome[j])

\* ------------------------------------------------------------------------ C16

\* The file is there, can be read and parses to a snapshot whose every field
\* equals that of `current`, an absent directory hash matching an absent one
\* only.
StoredEquals(file, current) ==
    /\ file.kind = "file"
    /\ FromStr(file.text).ok
    /\ LET stored == FromStr(file.text).value
       IN  /\ stored.build_yaml = current.build_yaml
           /\ stored.west_yml = current.west_yml
           /\ stored.boards_dir = current.boards_dir
           /\ stored.shields_dir = current.shields_dir

\* C16: is_incremental_safe returns true exactly when a stored snapshot
\* exists, can be read and parsed and equals `current` in every field; a
\* missing snapshot, a read or parse failure or a mismatch in one field
\* gives false.
C16_IncrementalSafe ==
    op.name = "is_incremental_safe" =>
        (op.safe <=> StoredEquals(hash_file, op.arg[1]))

\* is_incremental_safe has answered true for hashes with one directory hash
\* present and one absent.
C16_Witness ==
    /\ op.name = "is_incremental_safe"
    /\ op.safe
    /\ IsSome(op.arg[1].boards_dir)
    /\ IsNone(op.arg[1].shields_dir)

\* ------------------------------------------------------------------------ C17

\* The file is there and readable, its text does not parse.
Unparseable(file) == file.kind = "file" /\ ~FromStr(file.text).ok

\* C17 as stated: load returns Ok(None) when the snapshot file is absent and
\* when it is there but cannot be parsed.
C17_Original ==
    (op.name = "load" /\ (hash_file.kind = "absent" \/ Unparseable(hash_file)))
        => (op.ret.ok /\ IsNone(op.ret.value))

\* C17, amended: load returns Ok(None) when the snapshot file is absent; when
\* the file is there but cannot be parsed it returns the error "Failed to
\* parse ..", which is_incremental_safe answers with false.
C17_LoadAbsentOrUnparseable ==
    /\ (op.name = "load" /\ hash_file.kind = "absent")
          => (op.ret.ok /\ IsNone(op.ret.value))
    /\ (op.name = "load" /\ Unparseable(hash_file))
          => (~op.ret.ok
              /\ op.ret.value = << "Failed to parse .lfz_build_hashes.json" >>)
    /\ (op.name = "is_incremental_safe" /\ Unparseable(hash_file)) => ~op.safe

\* load has been called on a file that holds a member of the wrong type.
C17_Witness ==
    /\ op.name = "load"
    /\ Unparseable(hash_file)
    /\ hash_file.text # NotJson
    /\ ~op.ret.ok

\* ------------------------------------------------------------------------ C18

\* C18: load after a save that succeeded returns Some of the hashes saved,
\* whatever directory hashes they hold; after several saves, those of the
\* most recent one.
C18_SaveLoadRoundTrip ==
    (op.name = "load" /\ last_saved # << >>) =>
        /\ op.ret.ok
        /\ op.ret.value = Some(last_saved[Len(last_saved)])

\* Two different snapshots were saved one after the other and load has
\* returned the second, which holds escaped characters, a directory hash
\* and an absent one.
C18_Witness ==
    /\ op.name = "load"
    /\ Len(last_saved) = 2
    /\ last_saved[1] # last_saved[2]
    /\ last_saved[2].build_yaml = << "\"", "\\" >>
    /\ IsSome(last_saved[2].boards_dir)
    /\ IsNone(last_saved[2].shields_dir)
    /\ op.ret.ok /\ op.ret.value = Some(last_saved[2])

\* ------------------------------------------------------------------------ C19

\* The directory is hashed in this step, as it was when `op` got its digest
\* or after the one edit `op` names.
Rehashed == op.ret.ok /\ op'.name = "hash_directory" /\ op'.ret.ok

\* C19: the digest of a directory depends on the (relative path, contents)
\* pairs of its files only: hashing it again with nothing changed gives the
\* same digest whatever order read_dir lists the files in; hashing it after
\* a file was renamed, a file was added or the contents of a file were
\* changed gives another digest.
C19_DirectoryDigest ==
    [][Rehashed =>
         /\ op.name = "hash_directory" => op'.ret.value = op.ret.value
         /\ op.name \in {"rename", "add", "write"} => op'.ret.value # op.ret.value]_vars

\* ------------------------------------------------------------------------ C20

\* The result the build of target i hands on in this step.
Handed(i) == IF entry = "sequential" THEN results'[Len(results')] ELSE result'[i][1]

\* The file of the output directory at a path holds these bytes.
Holds(dir, path, bytes) == [path |-> path, bytes |-> bytes] \in dir.files

\* C20: when the toolchain has exited with 0, a candidate exists and the
\* directory and the copy work, collect_artifact takes the first of
\* build/<name>/zephyr/zmk.uf2 and build/<name>/zmk/zephyr/zmk.uf2 that
\* exists (the first when both do, the second when it alone does), makes
\* the output directory, copies the candidate to <output_dir>/<name>.uf2 and
\* returns that path.
C20_FirstCandidateCopied ==
    [][\A i \in Threads :
         (BuildReturns(i) /\ ExitedZero(outcome'[i])
            /\ ResolverSucceeds(outcome'[i].fs)) =>
            LET name == targets[i]
                first == IF 1 \in outcome'[i].fs.cands THEN 1 ELSE 2
                source == << "workspace/", "build/", name >>
                          \o (IF first = 1 THEN << "/zephyr/zmk.uf2" >>
                                            ELSE << "/zmk/zephyr/zmk.uf2" >>)
                dest == << "output_dir/", name, ".uf2" >>
            IN  /\ Handed(i).success
                /\ Handed(i).artifact_path = Some(dest)
                /\ output_dir'.exists
                /\ Holds(output_dir', dest, FirmwareAt(source))]_vars

\* The output directory was missing; both candidates of a exist and b has
\* the second only: the directory holds a's first and b's second candidate.
C20_Witness ==
    /\ N = 2
    /\ targets[1] # targets[2]
    /\ outcome[1].fs = [cands |-> {1, 2}, io |-> "ok"]
    /\ outcome[2].fs = [cands |-> {2}, io |-> "ok"]
    /\ pcMain = "done"
    /\ output_dir.exists
    /\ Holds(output_dir, << "output_dir/", targets[1], ".uf2" >>,
             FirmwareAt(<< "workspace/", "build/", targets[1], "/zephyr/zmk.uf2" >>))
    /\ Holds(output_dir, << "output_dir/", targets[2], ".uf2" >>,
             FirmwareAt(<< "workspace/", "build/", targets[2], "/zmk/zephyr/zmk.uf2" >>))

\* ------------------------------------------------------------------------ C21

\* The text `sub` occurs in the text `s`.
Occurs(sub, s) ==
    \E k \in 0..(Len(s) - Len(sub)) : SubSeq(s, k + 1, k + Len(sub)) = sub

\* The paths collect_artifact looks at for a target, as they are displayed.
TriedPaths(name) ==
    { << "workspace/", "build/", name, "/zephyr/zmk.uf2" >>,
      << "workspace/", "build/", name, "/zmk/zephyr/zmk.uf2" >> }

\* C21: when the toolchain has exited with 0 and neither candidate path
\* exists, collect_artifact fails, its error says that the artifact was not
\* found and names every path that was tried; the build hands on a failed
\* result without an artifact path whose error is "Failed to collect
\* artifact: " followed by that error, and nothing is put into the output
\* directory.
C21_NotFoundNamesCandidates ==
    [][\A i \in Threads :
         (BuildReturns(i) /\ ExitedZero(outcome'[i])
            /\ outcome'[i].fs.cands = {}) =>
            LET name == targets[i]
                a == CollectArtifact(name, outcome'[i].fs)
            IN  /\ ~a.ok
                /\ a.err[1] = "Build artifact not found. Searched:\n  "
                /\ \A t \in TriedPaths(name) : Occurs(t, a.err)
                /\ ~Handed(i).success
                /\ Handed(i).artifact_path = None
                /\ Handed(i).error
                     = Some(<< "Failed to collect artifact: " >> \o a.err)
                /\ \A t \in TriedPaths(name) : Occurs(t, Handed(i).error[1])
                /\ output_dir' = output_dir]_vars

\* A run has returned a failed result for a target whose child exited with
\* 0 and left a file at neither candidate path.
C21_Witness ==
    /\ ReturnedOk
    /\ \E i \in Threads :
         /\ ExitedZero(outcome[i])
         /\ outcome[i].fs.cands = {}
         /\ collects[i] = 1
         /\ \E k \in DOMAIN Returned :
              /\ Returned[k].target_name = targets[i]
              /\ ~Returned[k].success
              /\ \A t \in TriedPaths(targets[i]) : Occurs(t, Returned[k].error[1])

\* ------------------------------------------------------------------------ C22

\* The firmware the toolchain child of this step's build of target i wrote.
WrittenNow(i) == build_dir'[targets[i]].written

\* C22: whenever a build succeeds whose toolchain child wrote firmware, in
\* any sequence of pristine and incremental runs and whichever candidate
\* paths the children write to, the file at <output_dir>/<name>.uf2 is then
\* a copy of a file that this child wrote, not of one an earlier build left
\* at another candidate path.
C22_NoStaleArtifact ==
    [][\A i \in Threads :
         (BuildReturns(i) /\ Handed(i).success /\ WrittenNow(i) # {}) =>
            \E k \in WrittenNow(i) :
               Holds(output_dir', DestPath(targets[i]),
                     FirmwareAt(WorkspacePath(FirmwarePathCandidates(targets[i])[k])))]_vars

\* ------------------------------------------------------------------------ C23

\* The toolchain command of target i has been made: its build has started.
Started(i) == IsSome(west_args[i])

\* C23: in a sequential run no task thread exists and the targets are built
\* one after another: when the build of a target has started, every earlier
\* target has its result in the list; the i-th result is the result of the
\* build of the i-th target; the run returns Ok of the list with one result
\* per target.
C23_SequentialInOrder ==
    entry = "sequential" =>
        /\ \A i \in Threads : pc[i] = "idle"
        /\ \A i \in Threads :
             Started(i) => \A j \in 1..(i - 1) : j <= Len(results)
        /\ Len(results) <= N
        /\ \A k \in DOMAIN results :
             /\ results[k].target_name = targets[k]
             /\ results[k]
                  = SequentialBuild(verbose, targets[k], ccache, outcome[k]).result
        /\ pcMain = "done" =>
             /\ ReturnedOk
             /\ Returned = results
             /\ Len(Returned) = N

\* A sequential run of two different targets has returned; the first
\* target failed and the second was built.
C23_Witness ==
    /\ entry = "sequential"
    /\ ReturnedOk
    /\ N = 2
    /\ targets[1] # targets[2]
    /\ Started(1) /\ Started(2)
    /\ ~Returned[1].success
    /\ Returned[2].success

\* ------------------------------------------------------------------------ C24

\* Task thread i performs its insert in this step.
Inserts(i) == pc[i] = "push" /\ pc'[i] # "push"

\* Task thread i has performed its insert.
Inserted(i) == pc[i] \in {"drop", "finished"}

\* C24: in a parallel run the collection changes only by the insert of one
\* task thread at a time, which puts that thread's result behind the
\* results inserted before it; a thread that has inserted does not insert
\* again; the list the run returns is the collection as the inserts left
\* it, one result per target.
C24_InsertOrder ==
    [][entry = "parallel" =>
         /\ \A i \in Threads :
              Inserts(i) =>
                /\ results' = Append(results,
                       ParallelBuild(verbose, targets[i], ccache, outcome[i]).result)
                /\ \A j \in Threads \ { i } : ~Inserts(j)
         /\ results' # results => \E i \in Threads : Inserts(i)
         /\ \A i \in Threads : Inserted(i) => pc'[i] \in {"drop", "finished"}
         /\ Len(results) = Cardinality({ i \in Threads : Inserted(i) })
         /\ pcMain' = "done" =>
              /\ IsSome(ret') /\ ret'[1].ok
              /\ ret'[1].value = results
              /\ Len(results) = N]_vars

\* A parallel run of three different targets has returned their results in
\* an order that is not the order of the targets: the third target's first.
C24_Witness ==
    /\ entry = "parallel"
    /\ ReturnedOk
    /\ N = 3
    /\ Returned[1].target_name = targets[3]
    /\ Returned[2].target_name = targets[1]
    /\ Returned[3].target_name = targets[2]
    /\ ~Returned[1].success
    /\ Returned[2].success

\* ------------------------------------------------------------------------ C25

\* The task threads whose toolchain child may be running: the permit is
\* held and the build function has not returned.
Running == { i \in Threads : pc[i] = "building" }

BuildDir(name) == << "build/" >> \o name

\* C26: no two task threads that hold a permit at the same time build in
\* the same build directory or write the same file of the output directory,
\* whatever build.yaml and arguments the target list was made from.
C26_NoSharedDirectory ==
    \A i, j \in Holders :
        i # j => /\ BuildDir(targets[i]) # BuildDir(targets[j])
                 /\ DestPath(targets[i]) # DestPath(targets[j])

\* ------------------------------------------------------------------------ C27

\* The child is blocked in a write: the pipe of its next line is full.
WriteBlocked ==
    /\ pipes.child = "running"
    /\ pipes.script # << >>
    /\ pipes.read_end[Head(pipes.script).stream] = "open"
    /\ Len(pipes.buffer[Head(pipes.script).stream]) >= PipeCapacity

\* C27: in build_target_inner, build_target_with_progress and
\* build_target_verbose_parallel, whatever the child writes to its two
\* streams and in whatever order, a child blocked in a write gets on, the
\* child comes to its end and the task obtains its exit status.
C27_NoPipeDeadlock ==
    /\ WriteBlocked ~> ~WriteBlocked
    /\ <>(pipes.child = "exited" /\ IsSome(pipes.status))

\* The child has filled the pipe of stderr, has more to write to it and is
\* blocked, nothing having been written to stdout, while the task waits.
C27_Witness ==
    /\ WriteBlocked
    /\ Head(pipes.script).stream = "stderr"
    /\ pipes.buffer["stdout"] = << >>
    /\ pipes.read_end["stdout"] = "open"
    /\ pipes.task \in {"wait", "join_stdout"}
    /\ IsNone(pipes.status)

\* ------------------------------------------------------------------------ C28

\* The state a bar shows, read from its prefix.
Shown(bar) == CHOOSE state \in BuildStates : Prefix(state) = bar.prefix

\* How far along Pending -> Starting -> Running -> {Success | Failed} a
\* state is.
Rank(state) ==
    CASE state = "Pending"  -> 0
      [] state = "Starting" -> 1
      [] state = "Running"  -> 2
      [] state \in { "Success", "Failed" } -> 3

\* The board of a parallel run exists in this step and the next.
BoardStays ==
    /\ IsSome(progress) /\ IsSome(progress')
    /\ DOMAIN progress'[1].bars = DOMAIN progress[1].bars

\* C28: on the board of a parallel run, the state shown for a target never
\* moves back along Pending -> Starting -> Running -> {Success | Failed},
\* a bar that shows Success or Failed shows the same state and message ever
\* after, and a step from Running to Running leaves the bar unfinished.
C28_StateMovesForward ==
    [][BoardStays =>
         \A i \in DOMAIN progress[1].bars :
           LET old == progress[1].bars[i]
               new == progress'[1].bars[i]
           IN  /\ Rank(Shown(new)) >= Rank(Shown(old))
               /\ Rank(Shown(old)) = 3 =>
                     /\ new.prefix = old.prefix
                     /\ new.message = old.message
               /\ Shown(old) = "Running" /\ Shown(new) = "Running" =>
                     new.finished = old.finished]_vars

\* Two targets on the board: the first has gone through Starting and
\* Running to Success, the second shows its second progress string.
C28_Witness ==
    /\ IsSome(progress)
    /\ N = 2
    /\ Shown(Bar(1)) = "Success"
    /\ Bar(2).message = << targets[2], " ", "[2/2]" >>
    /\ Shown(Bar(2)) = "Running"

\* ------------------------------------------------------------------------ C29

\* C29: once finish has been called for an index, no call of update or of
\* finish changes what the bar of the index shows or the result recorded
\* for it.
C29_FinishIsTerminal ==
    [][\A i \in DOMAIN progress[1].bars :
         (progress[1].bars[i].finished /\ ~progress[1].printed /\ ~progress'[1].printed) =>
           /\ progress'[1].bars[i].prefix = progress[1].bars[i].prefix
           /\ progress'[1].bars[i].message = progress[1].bars[i].message
           /\ progress'[1].results[i] = progress[1].results[i]]_vars

\* ------------------------------------------------------------------------ C30

\* The result build_target_with_progress returned for target i.
BuildResultOf(i) == BuildTargetWithProgress(targets[i], ccache, outcome[i]).result

\* build_parallel has joined its threads and printed the summary of a run
\* with a board.
Summarised ==
    /\ entry = "parallel"
    /\ pcMain = "done"
    /\ IsSome(progress)

\* C30: the summary of a parallel run with a board has one line per target,
\* the line of target i is the i-th, begins with the target's name, and
\* carries the marker of success exactly when the result of the target is a
\* success.
C30_SummaryPerTarget ==
    Summarised =>
        /\ progress[1].printed
        /\ Len(progress[1].stdout) = N
        /\ \A i \in 1..N :
             /\ Head(progress[1].stdout[i].msg) = targets[i]
             /\ (progress[1].stdout[i].marker = "[OK]") = BuildResultOf(i).success
             /\ (progress[1].stdout[i].marker = "[XX]") = ~BuildResultOf(i).success

\* The summary of a run of two targets whose second build ended first: the
\* first failed, the second succeeded.
C30_Witness ==
    /\ Summarised
    /\ N = 2
    /\ targets[1] # targets[2]
    /\ results[1].target_name = targets[2]
    /\ ~BuildResultOf(1).success
    /\ BuildResultOf(2).success
    /\ progress[1].stdout[1].marker = "[XX]"
    /\ progress[1].stdout[2].marker = "[OK]"

\* ------------------------------------------------------------------------ C31

\* What a parallel run has put on its outputs: the bars of the board and
\* the lines of print_results; build_target_with_progress writes nothing
\* else.
BoardLines == IF IsSome(progress) THEN progress[1].stdout ELSE << >>

\* A quiet parallel run that is not verbose.
QuietParallel == entry = "parallel" /\ quiet /\ ~verbose

BoardsAndShields ==
    /\ inputs.build_yaml[1].include = << >>
    /\ inputs.build_yaml[1].board # << >>
    /\ inputs.build_yaml[1].shield # << >>

\* C32: expand_targets of board and shield lists without include entries
\* returns one target per pair of a board and a shield, the pairs of the
\* first board first, and the artifact name of each is <shield>-<board>.
C32_CartesianNames ==
    (IsSome(ret) /\ BoardsAndShields) =>
        LET config == inputs.build_yaml[1]
            ns == Len(config.shield)
        IN  /\ ret[1].ok
            /\ Len(ret[1].value) = Len(config.board) * ns
            /\ \A b \in 1..Len(config.board), k \in 1..ns :
                 LET t == ret[1].value[(b - 1) * ns + k]
                 IN  /\ t.board = config.board[b]
                     /\ t.shield = Some(config.shield[k])
                     /\ t.artifact_name = config.shield[k] \o << "-" >> \o config.board[b]

\* ------------------------------------------------------------------------ C33

\* The lines of a stream that are valid UTF-8, in the order of their writes.
ValidLines(lines) == SelectSeq(lines, LAMBDA l : l.valid)

\* C33: when a build function that captures the output has the exit status
\* and has joined both readers, the point at which it makes its result, the
\* child has exited, both readers have ended, and in the functions that
\* keep the output for error_output the readers hold every line of valid
\* UTF-8 that the child wrote to stdout and to stderr.
C33_ResultAfterStreams ==
    (pipes.fn \in CapturingFunctions /\ pipes.task = "done") =>
        /\ pipes.child = "exited"
        /\ IsSome(pipes.status)
        /\ \A s \in Streams :
             /\ pipes.read_end[s] = "closed"
             /\ pipes.fn # "build_target_verbose_parallel" =>
                   pipes.captured[s] = ValidLines(pipes.written[s])

\* ------------------------------------------------------------------------ C34

\* C34: the stdout reader of build_target_inner and of
\* build_target_with_progress holds a trailing window of the lines only:
\* however many lines the child writes, here up to MaxLines, the reader
\* holds fewer than that.
C34_BoundedWindow ==
    pipes.fn \in { "build_target_inner", "build_target_with_progress" } =>
        Len(pipes.captured["stdout"]) < MaxLines

\* ------------------------------------------------------------------------ C35

\* A sequence is the beginning of another.
IsPrefix(a, b) == Len(a) <= Len(b) /\ a = SubSeq(b, 1, Len(a))

\* C35: the progress strings shown for a target are, in this order, the
\* first of those of the progress lines its child wrote; the bar of a
\* target changes only while the task thread of the target runs its build
\* function, and a string is shown only on a bar that finish has not been
\* called for; the threads of different targets take their steps in any
\* order.
C35_OrderedSingleWriter ==
    /\ [](\A i \in DOMAIN channel :
            IsPrefix(channel[i].shown, ProgressStrings(channel[i].script)))
    /\ [][IsSome(progress) /\ IsSome(progress') =>
            \A i \in DOMAIN channel :
              /\ (progress'[1].bars[i].prefix # progress[1].bars[i].prefix
                    \/ progress'[1].bars[i].message # progress[1].bars[i].message)
                  => pc[i] = "building"
              /\ channel'[i].shown # channel[i].shown
                  => ~progress[1].bars[i].finished /\ ~progress'[1].bars[i].finished]_vars

\* Two targets build at the same time: the first shows its second progress
\* string, the second has shown its first.
C35_Witness ==
    /\ N = 2
    /\ pc[1] = "building" /\ pc[2] = "building"
    /\ channel[1].shown = << "[2/2]", "[1/2]" >>
    /\ channel[2].shown = << "[1/2]" >>
    /\ Bar(1).message = << targets[1], " ", "[1/2]" >>


\* --------------------------------------------------------------------- C36

\* The task threads that wait for a permit, for their child or for a line of
\* a pipe.
Blocked == { i \in Threads : pc[i] \in {"acquire", "waiting", "building"} }

FinishCalled(i) == pc[i] = "building" /\ pc'[i] = "push"

\* The path the build function of a target took to its return.
ExitPath(i) ==
    IF ~ccache THEN "cache-dir error"
    ELSE IF ~outcome[i].spawn THEN "spawn failure"
    ELSE IF ~outcome[i].wait THEN "wait failure"
    ELSE IF outcome[i].code # 0 THEN "non-zero exit"
    ELSE IF result[i][1].success THEN "artifact found"
    ELSE "artifact missing"

\* C37: with the board, the step in which build_target_with_progress returns
\* is the one call of finish for the target's index: the bar was not
\* finished before, it is finished after, and the recorded flag is the
\* success field of the BuildResult returned; no other step of a task thread
\* touches the target's recorded result or finishes its bar.
C37_FinishOncePerExit ==
    [][IsSome(progress) /\ IsSome(progress') =>
         \A i \in Threads :
           /\ FinishCalled(i) =>
                /\ ~progress[1].bars[i].finished
                /\ progress'[1].bars[i].finished
                /\ progress'[1].results[i].msg # << >>
                /\ progress'[1].results[i].success = result'[i][1].success
           /\ ~FinishCalled(i) =>
                /\ progress'[1].results[i] = progress[1].results[i]
                /\ progress'[1].bars[i].finished # progress[1].bars[i].finished
                     => progress'[1].printed /\ ~progress[1].printed]_vars

\* Two builds have returned, one with its artifact found and one with its
\* artifact missing, each with its flag on the board.
C37_Witness ==
    /\ N = 2
    /\ IsSome(progress)
    /\ pc[1] = "push" /\ pc[2] = "push"
    /\ ExitPath(1) = "artifact found" /\ ExitPath(2) = "artifact missing"
    /\ progress[1].results[1].success /\ ~progress[1].results[2].success
    /\ Bar(1).finished /\ Bar(2).finished


\* --------------------------------------------------------------------- C38

\* collect_artifact is called for target i in this step and finds none of
\* the candidates.
CollectFindsNone(i) ==
    /\ collects'[i] = collects[i] + 1
    /\ outcome'[i].fs.cands = {}

\* C38: a call of collect_artifact that finds no candidate leaves the output
\* directory as it was: it is not made, and a file that an earlier build
\* left at <output_dir>/<artifact_name>.uf2 keeps its bytes.
C38_NoCandidateNoChange ==
    [][\A i \in Threads : CollectFindsNone(i) => output_dir' = output_dir]_vars

\* The second build of the same artifact name found no candidate, and the
\* artifact of the first build is in the output directory.
C38_Witness ==
    /\ targets = << "a", "a" >>
    /\ collects = << 1, 1 >>
    /\ outcome[1].fs.cands # {} /\ outcome[1].fs.io = "ok"
    /\ outcome[2].fs.cands = {}
    /\ \E f \in output_dir.files : f.path = DestPath("a")


\* --------------------------------------------------------------------- C39

\* The k-th call found the workspace there and west.yml changed, and its
\* update failed.
UpdateFailedAt(k) ==
    /\ workspace.calls[k].branch = "changed"
    /\ workspace.calls[k].update = "failed"

\* C39: a call of get_or_create whose update fails leaves the hash file as
\* it was, and the only calls that write the hash file of an existing
\* workspace are those whose update succeeded; the next call with the same
\* west.yml finds it changed again and, given a runtime, runs the update
\* again: it does not report the workspace as cached.
C39_HashSavedAfterUpdate ==
    /\ [][\A e \in WorkspaceOutcomes :
            LET r == GetOrCreateResult(workspace, inputs.west_yml, e)
            IN  /\ r.update = "failed" => r.ws.hash_file = workspace.hash_file
                /\ r.branch = "changed" /\ r.ws.hash_file # workspace.hash_file
                     => r.update = "ok" /\ r.ws.synced = inputs.west_yml]_vars
    /\ [](\A k \in 1..(Len(workspace.calls) - 1) :
            UpdateFailedAt(k) /\ workspace.calls[k + 1].west_yml = workspace.calls[k].west_yml
              => /\ workspace.calls[k + 1].branch = "changed"
                 /\ workspace.calls[k + 1].detect => workspace.calls[k + 1].update # "none")

\* An update failed, and the next call, with the same west.yml, ran the
\* update again and stored the hash.
C39_Witness ==
    /\ Len(workspace.calls) = 3
    /\ workspace.calls[1].branch = "init" /\ workspace.calls[1].ok
    /\ UpdateFailedAt(2)
    /\ workspace.calls[3].west_yml = workspace.calls[2].west_yml
    /\ workspace.calls[3].update = "ok" /\ workspace.calls[3].ok
    /\ workspace.hash_file = Some(Sha256Hex(<< "y" >>))

====
